---- MODULE Spec2Model ----
(***************************************************************************)
(* Media Restructure Engine of telegram-torrent-bot (src/src/restructure.rs)*)
(* as a state machine: scan -> batched metadata inference -> plan ->        *)
(* reply -> execution of the moves.                                         *)
(*                                                                          *)
(* Strings are sequences of tokens.  The token set (Alphabet) is prefix     *)
(* free, so a string is a prefix of another exactly when its token          *)
(* sequence is, and the byte order of two strings is the lexicographic      *)
(* order of their token sequences under the byte order of the tokens.       *)
(* A path is the sequence of its components below base_path; a component    *)
(* (a file or directory name) is a string.                                  *)
(***************************************************************************)
EXTENDS Integers, Sequences, FiniteSets, TLC

VARIABLES
    rootKind,       \* what base_path is on disk: "dir", "file" or "missing"
    files,          \* the regular files below base_path: path -> content id
    dirs,           \* the directories below base_path
    unreadable,     \* the directories whose listing fails (read_dir is Err)
    oracle,         \* what the guessit process does for a file: content id -> outcome
    faults,         \* what the operating system does to the calls of execute_moves:
                    \* position in the list -> fault
    media,          \* Media::TV or Media::Movie of the request
    pc,             \* position of the handler
    round,          \* how many times generate_restructure_plan was called
    video_files,    \* generate_restructure_plan: the scan's result
    chunkStart,     \* index in video_files of the first file of the current chunk
    tasks,          \* the tasks spawned for the current chunk
    joinIdx,        \* how many tasks of the current chunk were awaited
    operations,     \* plan.operations being built / returned
    unparseable_files, \* plan.unparseable_files being built / returned
    genResult,      \* "none", "Ok" or "Err": what generate_restructure_plan returned
    listing,        \* the text format_restructure_plan returned (its lines)
    reply,          \* the reply text handed to parse_restructure_reply
    parsed,         \* what parse_restructure_reply returned
    selected,       \* execute_moves: the operations it was given
    execIdx,        \* execute_moves: how many operations were processed
    success_count,  \* execute_moves: success_count
    errors,         \* execute_moves: errors
    execResult,     \* "none", "Ok" or "Err": what execute_moves returned
    resultText,     \* the lines of the string execute_moves returned
    response,       \* handle_message: the result sent to the chat
    calls,          \* execute_moves: the filesystem calls it made, in order
    firstPlan,      \* what the first execution of a whole plan did
    restructure_plans, \* handle_message: the plans stored with their message ids
    lastId,         \* the id of the last message the bot sent
    resolveArg,     \* resolve_collision called alone: its argument
    resolveRes,     \* resolve_collision called alone: its result
    matchArg,       \* find_matching_subtitles called alone: video_path
    matchRes,       \* find_matching_subtitles called alone: its result
    http,           \* Transmission: the responses to the requests, in order
    handshake,      \* Transmission: where each handshake function is, the
                    \* session ids of the requests it sent, and its result
    dispatch        \* dispatch_from_reply called alone: its arguments, the
                    \* build, real_index and the result

vars == << rootKind, files, dirs, unreadable, oracle, faults, media, pc, round,
           video_files, chunkStart, tasks, joinIdx, operations,
           unparseable_files, genResult, listing, reply, parsed,
           selected, execIdx, success_count, errors, execResult, resultText, response, calls, firstPlan,
           restructure_plans, lastId, resolveArg, resolveRes, matchArg, matchRes, http, handshake, dispatch >>

(***************************************************************************)
(* Bounds of the model.                                                     *)
(***************************************************************************)
MaxFiles == 3          \* files in the directory tree of an initial state of Spec
MaxRounds == 2         \* calls of generate_restructure_plan in one behaviour
BatchFiles == 11       \* videos in the directory of an initial state of SpecBatch
ExtraTaken == 1        \* SpecResolve: candidates taken beyond the program's 100
ExtraGroups == 2       \* SpecReply: video groups in a plan beyond the 50 listed
ExtraOps == 2          \* SpecExec: operations in a list beyond the 10 errors itemized
MaxEpisodes == 3        \* the longest episode array of SpecEpisodes
MaxTorrents == 3       \* SpecDispatch: the longest search result list
ExtraPlans == 2        \* SpecHandler: plans stored beyond the store's 100
PlanGroups == 2        \* SpecHandler: video groups in the plan of the directory

(***************************************************************************)
(* Program constants.                                                       *)
(***************************************************************************)
batch_size == 10       \* restructure.rs:312
MaxSuffix == 100       \* restructure.rs:231, for i in 1..=100
MaxListed == 50        \* restructure.rs:439

(***************************************************************************)
(* Strings.                                                                 *)
(***************************************************************************)
\* The tokens, in ascending byte order.
Alphabet ==
    << " (", " - S", ")", "-", ".", "/",
       "0", "1", "2", "3", "4", "5", "6", "7", "8", "9",
       ":", "E", "Season ", "T",
       "ass", "avi", "en", "flv", "m4v", "mkv", "mov", "mp4",
       "srt", "ssa", "sub", "txt", "vtt", "webm", "wmv", "x", "y" >>

Rank(t) == CHOOSE i \in 1..Len(Alphabet) : Alphabet[i] = t

Min(S) == CHOOSE x \in S : \A y \in S : x <= y
Max(S) == CHOOSE x \in S : \A y \in S : y <= x

Range(s) == { s[i] : i \in 1..Len(s) }

\* str::starts_with
StartsWith(s, p) == Len(p) <= Len(s) /\ SubSeq(s, 1, Len(p)) = p

\* Ord for String: byte-wise lexicographic.
StrLess(s, t) ==
    \/ Len(s) < Len(t) /\ SubSeq(t, 1, Len(s)) = s
    \/ \E i \in 1..Min({Len(s), Len(t)}) :
          /\ SubSeq(s, 1, i - 1) = SubSeq(t, 1, i - 1)
          /\ Rank(s[i]) < Rank(t[i])

DigitTok == << "0", "1", "2", "3", "4", "5", "6", "7", "8", "9" >>

\* format!("{}", n) of an unsigned number
RECURSIVE Digits(_)
Digits(n) ==
    IF n < 10 THEN << DigitTok[n + 1] >>
    ELSE Digits(n \div 10) \o << DigitTok[(n % 10) + 1] >>

\* format!("{:02}", n)
Pad2(n) == IF n < 10 THEN << "0" >> \o Digits(n) ELSE Digits(n)

(***************************************************************************)
(* std::path::Path.                                                         *)
(***************************************************************************)
LastDot(name) ==
    LET D == { i \in 1..Len(name) : name[i] = "." }
    IN  IF D = {} THEN 0 ELSE Max(D)

\* Path::extension is Some: the name has a '.' that is not its first byte.
HasExtension(name) == LastDot(name) > 1

\* Path::extension, when it is Some: the part after the final '.'
Extension(name) == SubSeq(name, LastDot(name) + 1, Len(name))

\* Path::file_stem
FileStem(name) ==
    IF HasExtension(name) THEN SubSeq(name, 1, LastDot(name) - 1) ELSE name

\* Path::file_name and Path::parent of a path with at least one component
FileName(p) == p[Len(p)]
Parent(p) == SubSeq(p, 1, Len(p) - 1)

\* PathBuf::join of a relative component: an empty one adds no component
Join(p, name) == IF name = << >> THEN p ELSE Append(p, name)

\* The path as the string the program holds: components joined with '/'.
RECURSIVE PathString(_)
PathString(p) ==
    IF p = << >> THEN << >>
    ELSE << "/" >> \o p[1] \o PathString(Tail(p))

PathLess(p, q) == StrLess(PathString(p), PathString(q))

\* Vec::sort of a set of path strings
RECURSIVE SortPaths(_)
SortPaths(S) ==
    IF S = {} THEN << >>
    ELSE LET m == CHOOSE p \in S : \A q \in S \ {p} : PathLess(p, q)
         IN  << m >> \o SortPaths(S \ {m})

(***************************************************************************)
(* The filesystem below base_path.                                          *)
(***************************************************************************)
IsFile(fs, p) == p \in DOMAIN fs
IsDir(ds, p) == p = << >> \/ p \in ds
PathExists(fs, ds, p) == IsFile(fs, p) \/ IsDir(ds, p)

\* The proper ancestors of a path, base_path excluded.
Ancestors(p) == { SubSeq(p, 1, k) : k \in 1..(Len(p) - 1) }

\* Path::canonicalize().unwrap_or_else(|_| PathBuf::from(path)): the absolute,
\* resolved path of an existing path, the path as given otherwise.
Canonicalize(fs, ds, p) ==
    IF PathExists(fs, ds, p) THEN << "canonical", p >> ELSE << "given", p >>

\* The extension sets, each extension with its leading dot.
VIDEO_EXTENSIONS ==
    { << ".", e >> : e \in { "mkv", "mp4", "avi", "mov", "wmv", "flv", "webm", "m4v" } }
SUBTITLE_EXTENSIONS ==
    { << ".", e >> : e \in { "srt", "sub", "ass", "ssa", "vtt" } }

(***************************************************************************)
(* scan_files_recursive.                                                    *)
(***************************************************************************)
\* name_str.starts_with('.')
IsHidden(name) == Len(name) > 0 /\ name[1] = "."

\* The directories walk_dir lists: base_path and every directory reached
\* through directories whose names do not start with '.'.
WalkedDirs(ds) ==
    { << >> } \cup { d \in ds : \A k \in 1..Len(d) : ~IsHidden(d[k]) }

\* The files walk_dir pushes.
WalkedFiles(fs, ds, extensions) ==
    { p \in DOMAIN fs :
        /\ Parent(p) \in WalkedDirs(ds)
        /\ ~IsHidden(FileName(p))
        /\ HasExtension(FileName(p))
        /\ (<< "." >> \o Extension(FileName(p))) \in extensions }

\* Result<Vec<String>, String>
scan_files_recursive(rk, fs, ds, unr, extensions) ==
    IF rk = "missing" THEN [ok |-> FALSE, err |-> "Directory does not exist", files |-> << >>]
    ELSE IF rk # "dir" THEN [ok |-> FALSE, err |-> "Path is not a directory", files |-> << >>]
    ELSE IF WalkedDirs(ds) \cap unr # {}
         THEN [ok |-> FALSE, err |-> "Failed to read directory", files |-> << >>]
    ELSE [ok |-> TRUE, err |-> "", files |-> SortPaths(WalkedFiles(fs, ds, extensions))]

(***************************************************************************)
(* call_guessit.                                                            *)
(***************************************************************************)
\* Option<T> is a sequence of at most one element.
None == << >>
Some(x) == << x >>
IsSome(o) == Len(o) = 1
Unwrap(o) == o[1]

\* serde_json::Value of the "episode" field
EpAbsent == [shape |-> "absent", vals |-> << >>]
EpNumber(n) == [shape |-> "number", vals |-> << n >>]
EpArray(s) == [shape |-> "array", vals |-> s]

NoMeta ==
    [title |-> << >>, year |-> None, season |-> None, episode |-> EpAbsent,
     extension |-> << >>]

\* The outcomes of the guessit process: kind is "timeout" (no answer within 5 s),
\* "notfound" (no such program), "exit" (non-zero exit status), "badjson"
\* (standard output is no JSON object) or "json": an object whose fields are
\* given, title and extension as Options of strings.
Outcome(k, t, y, s, e, x) ==
    [kind |-> k, title |-> t, year |-> y, season |-> s, episode |-> e, extension |-> x]

\* serde_json::from_str::<GuessitMetadata>: title and extension are String
\* fields, required; year, season and episode are Options.
Deserialize(out) ==
    IF out.kind # "json" THEN [ok |-> FALSE, meta |-> NoMeta]
    ELSE IF ~IsSome(out.title) \/ ~IsSome(out.extension) THEN [ok |-> FALSE, meta |-> NoMeta]
    ELSE [ok |-> TRUE,
          meta |-> [title |-> Unwrap(out.title), year |-> out.year,
                    season |-> out.season, episode |-> out.episode,
                    extension |-> Unwrap(out.extension)]]

\* Result<GuessitMetadata, String>
call_guessit(file_path, out) ==
    IF out.kind = "timeout" THEN [ok |-> FALSE, err |-> "guessit command timed out", meta |-> NoMeta]
    ELSE IF out.kind = "notfound" THEN [ok |-> FALSE, err |-> "guessit not found", meta |-> NoMeta]
    ELSE IF out.kind = "exit" THEN [ok |-> FALSE, err |-> "guessit failed", meta |-> NoMeta]
    ELSE IF ~Deserialize(out).ok
         THEN [ok |-> FALSE, err |-> "Failed to parse guessit output", meta |-> NoMeta]
    ELSE [ok |-> TRUE, err |-> "",
          meta |-> [Deserialize(out).meta EXCEPT !.extension =
                      IF HasExtension(FileName(file_path))
                      THEN << "." >> \o Extension(FileName(file_path))
                      ELSE << ".", "mkv" >>]]

\* GuessitMetadata::episodes
episodes(metadata) ==
    IF metadata.episode.shape \in { "number", "array" } THEN metadata.episode.vals
    ELSE << >>

(***************************************************************************)
(* Path generation.                                                         *)
(***************************************************************************)
Invalid == { "/", ":" }

\* sanitize_filename: each invalid character becomes '-'
sanitize_filename(name) ==
    [i \in 1..Len(name) |-> IF name[i] \in Invalid THEN "-" ELSE name[i]]

\* SortNums that leaves the vector as it is.
SortNums_Unsorted(s) == s

\* Vec::sort of numbers
RECURSIVE SortNums(_)
SortNums(s) ==
    IF s = << >> THEN << >>
    ELSE LET k == CHOOSE i \in 1..Len(s) : \A j \in 1..Len(s) : s[i] <= s[j]
         IN  << s[k] >> \o SortNums(SubSeq(s, 1, k - 1) \o SubSeq(s, k + 1, Len(s)))

\* ep_parts.join("-") of the parts E{:02}
RECURSIVE EpisodeStr(_)
EpisodeStr(sorted) ==
    IF Len(sorted) = 1 THEN << "E" >> \o Pad2(sorted[1])
    ELSE << "E" >> \o Pad2(sorted[1]) \o << "-" >> \o EpisodeStr(Tail(sorted))

\* Result<String, String>; base_path is the empty path of the model.
generate_tv_path(metadata) ==
    IF ~IsSome(metadata.season) THEN [ok |-> FALSE, path |-> << >>]
    ELSE IF episodes(metadata) = << >> THEN [ok |-> FALSE, path |-> << >>]
    ELSE LET title == sanitize_filename(metadata.title)
             season_str == Pad2(Unwrap(metadata.season))
             episode_str == EpisodeStr(SortNums(episodes(metadata)))
             filename == title \o << " - S" >> \o season_str \o episode_str
                         \o metadata.extension
         IN  [ok |-> TRUE,
              path |-> Join(Join(Join(<< >>, title), << "Season " >> \o season_str),
                            filename)]

generate_movie_path(metadata) ==
    LET title == sanitize_filename(metadata.title)
        folder_name == IF IsSome(metadata.year)
                       THEN title \o << " (" >> \o Digits(Unwrap(metadata.year)) \o << ")" >>
                       ELSE title
        filename == folder_name \o metadata.extension
    IN  [ok |-> TRUE, path |-> Join(Join(<< >>, folder_name), filename)]

(***************************************************************************)
(* resolve_collision.                                                       *)
(***************************************************************************)
\* format!("{}-{}", file_stem, i) or format!("{}-{}.{}", file_stem, i, extension),
\* joined to the parent
Candidate(target_path, i) ==
    LET name == FileName(target_path)
        file_stem == FileStem(name)
        extension == IF HasExtension(name) THEN Extension(name) ELSE << >>
        new_name == IF extension = << >>
                    THEN file_stem \o << "-" >> \o Digits(i)
                    ELSE file_stem \o << "-" >> \o Digits(i) \o << "." >> \o extension
    IN  Join(Parent(target_path), new_name)

\* Probe with the loop one iteration short (for i in 1..100).
RECURSIVE Probe_OneShort(_, _, _, _)
Probe_OneShort(fs, ds, target_path, i) ==
    IF i >= MaxSuffix THEN target_path
    ELSE IF ~PathExists(fs, ds, Candidate(target_path, i)) THEN Candidate(target_path, i)
    ELSE Probe_OneShort(fs, ds, target_path, i + 1)

\* The loop "for i in 1..=100" from i on, with its fallback.
RECURSIVE Probe(_, _, _, _)
Probe(fs, ds, target_path, i) ==
    IF i > MaxSuffix THEN target_path
    ELSE IF ~PathExists(fs, ds, Candidate(target_path, i)) THEN Candidate(target_path, i)
    ELSE Probe(fs, ds, target_path, i + 1)

resolve_collision(fs, ds, target_path) ==
    IF ~PathExists(fs, ds, target_path) THEN target_path
    ELSE Probe(fs, ds, target_path, 1)

(***************************************************************************)
(* find_matching_subtitles.                                                 *)
(***************************************************************************)
\* The entries of the parent directory that the loop pushes.
MatchingEntries(fs, unr, video_path) ==
    LET parent == Parent(video_path)
        video_stem == FileStem(FileName(video_path))
    IN  IF parent \in unr THEN {}
        ELSE { p \in DOMAIN fs :
                 /\ Parent(p) = parent
                 /\ ~( /\ HasExtension(FileName(p))
                       /\ (<< "." >> \o Extension(FileName(p))) \notin SUBTITLE_EXTENSIONS )
                 /\ StartsWith(FileName(p), video_stem) }

find_matching_subtitles(fs, unr, video_path) ==
    SortPaths(MatchingEntries(fs, unr, video_path))

(***************************************************************************)
(* generate_restructure_plan: the body of the loop over the awaited tasks.  *)
(***************************************************************************)
MoveOperation(s, t, d, sub) ==
    [source_path |-> s, target_path |-> t, display_name |-> d, is_subtitle |-> sub]

\* The subtitle operations pushed after the video operation, in order.
SubtitleOps(fs, ds, final_target, subtitles) ==
    [k \in 1..Len(subtitles) |->
        LET sub_path == subtitles[k]
            sub_name == FileName(sub_path)
            sub_target == Join(Parent(final_target), sub_name)
        IN  MoveOperation(sub_path, resolve_collision(fs, ds, sub_target), sub_name, TRUE)]

\* ProcessResult with the subtitle operations pushed before the video operation.
ProcessResult_SubtitlesFirst(fs, ds, unr, md, file_path, result) ==
    IF ~result.ok THEN [ops |-> << >>, unparseable |-> << file_path >>]
    ELSE LET target == IF md = "TV" THEN generate_tv_path(result.meta)
                       ELSE generate_movie_path(result.meta)
         IN  IF ~target.ok THEN [ops |-> << >>, unparseable |-> << file_path >>]
             ELSE IF Canonicalize(fs, ds, file_path) = Canonicalize(fs, ds, target.path)
                  THEN [ops |-> << >>, unparseable |-> << >>]
             ELSE LET final_target == resolve_collision(fs, ds, target.path)
                      video == MoveOperation(file_path, final_target,
                                             FileName(file_path), FALSE)
                  IN  [ops |-> SubtitleOps(fs, ds, final_target,
                                           find_matching_subtitles(fs, unr, file_path))
                               \o << video >>,
                       unparseable |-> << >>]

\* ProcessResult that lists a file that is already in its place as unparseable.
ProcessResult_OrganizedListed(fs, ds, unr, md, file_path, result) ==
    IF ~result.ok THEN [ops |-> << >>, unparseable |-> << file_path >>]
    ELSE LET target == IF md = "TV" THEN generate_tv_path(result.meta)
                       ELSE generate_movie_path(result.meta)
         IN  IF ~target.ok THEN [ops |-> << >>, unparseable |-> << file_path >>]
             ELSE IF Canonicalize(fs, ds, file_path) = Canonicalize(fs, ds, target.path)
                  THEN [ops |-> << >>, unparseable |-> << file_path >>]
             ELSE LET final_target == resolve_collision(fs, ds, target.path)
                      video == MoveOperation(file_path, final_target,
                                             FileName(file_path), FALSE)
                  IN  [ops |-> << video >> \o
                               SubtitleOps(fs, ds, final_target,
                                           find_matching_subtitles(fs, unr, file_path)),
                       unparseable |-> << >>]

\* ProcessResult that does not list a file whose path cannot be generated.
ProcessResult_DropFailed(fs, ds, unr, md, file_path, result) ==
    IF ~result.ok THEN [ops |-> << >>, unparseable |-> << file_path >>]
    ELSE LET target == IF md = "TV" THEN generate_tv_path(result.meta)
                       ELSE generate_movie_path(result.meta)
         IN  IF ~target.ok THEN [ops |-> << >>, unparseable |-> << >>]
             ELSE IF Canonicalize(fs, ds, file_path) = Canonicalize(fs, ds, target.path)
                  THEN [ops |-> << >>, unparseable |-> << >>]
             ELSE LET final_target == resolve_collision(fs, ds, target.path)
                      video == MoveOperation(file_path, final_target,
                                             FileName(file_path), FALSE)
                  IN  [ops |-> << video >> \o
                               SubtitleOps(fs, ds, final_target,
                                           find_matching_subtitles(fs, unr, file_path)),
                       unparseable |-> << >>]

\* What one awaited task adds to operations and to unparseable_files.
ProcessResult(fs, ds, unr, md, file_path, result) ==
    IF ~result.ok THEN [ops |-> << >>, unparseable |-> << file_path >>]
    ELSE LET target == IF md = "TV" THEN generate_tv_path(result.meta)
                       ELSE generate_movie_path(result.meta)
         IN  IF ~target.ok THEN [ops |-> << >>, unparseable |-> << file_path >>]
             ELSE IF Canonicalize(fs, ds, file_path) = Canonicalize(fs, ds, target.path)
                  THEN [ops |-> << >>, unparseable |-> << >>]
             ELSE LET final_target == resolve_collision(fs, ds, target.path)
                      video == MoveOperation(file_path, final_target,
                                             FileName(file_path), FALSE)
                  IN  [ops |-> << video >> \o
                               SubtitleOps(fs, ds, final_target,
                                           find_matching_subtitles(fs, unr, file_path)),
                       unparseable |-> << >>]

(***************************************************************************)
(* format_restructure_plan.  The text is the sequence of its lines; a line  *)
(* that renders an operation carries the index of that operation.           *)
(***************************************************************************)
Line(k, n, o) == [kind |-> k, num |-> n, op |-> o]

\* while j < len && operations[j].is_subtitle { j += 1 }
RECURSIVE SkipSubtitles(_, _)
SkipSubtitles(ops, j) ==
    IF j <= Len(ops) /\ ops[j].is_subtitle THEN SkipSubtitles(ops, j + 1) ELSE j

\* The remainder counted in video operations instead of operations.
RECURSIVE FormatLoop_CountVideos(_, _, _)
FormatLoop_CountVideos(ops, i, current_index) ==
    IF i > Len(ops) THEN << >>
    ELSE IF ~ops[i].is_subtitle
    THEN IF current_index + 1 > MaxListed
         THEN << Line("more", Cardinality({ p \in i..Len(ops) : ~ops[p].is_subtitle }), 0) >>
         ELSE << Line("entry", current_index + 1, i) >>
              \o [k \in 1..(SkipSubtitles(ops, i + 1) - i - 1) |-> Line("sub", 0, i + k)]
              \o FormatLoop_CountVideos(ops, SkipSubtitles(ops, i + 1), current_index + 1)
    ELSE FormatLoop_CountVideos(ops, i + 1, current_index)

\* The loop "while i < plan.operations.len()", i counted from 1: the lines it
\* pushes from operation i on, current_index entries being numbered so far.
RECURSIVE FormatLoop(_, _, _)
FormatLoop(ops, i, current_index) ==
    IF i > Len(ops) THEN << >>
    ELSE IF ~ops[i].is_subtitle
    THEN IF current_index + 1 > MaxListed
         THEN << Line("more", Len(ops) - (i - 1), 0) >>
         ELSE << Line("entry", current_index + 1, i) >>
              \o [k \in 1..(SkipSubtitles(ops, i + 1) - i - 1) |-> Line("sub", 0, i + k)]
              \o FormatLoop(ops, SkipSubtitles(ops, i + 1), current_index + 1)
    ELSE FormatLoop(ops, i + 1, current_index)

MaxUnparseableListed == 20

UnparseableLines(unp) ==
    IF unp = << >> THEN << >>
    ELSE << Line("unparseable_header", 0, 0) >>
         \o [k \in 1..Min({Len(unp), MaxUnparseableListed}) |-> Line("unparseable", k, 0)]
         \o (IF Len(unp) > MaxUnparseableListed
             THEN << Line("more_unparseable", Len(unp) - MaxUnparseableListed, 0) >>
             ELSE << >>)

format_restructure_plan(ops, unp) ==
    IF ops = << >> /\ unp = << >> THEN << Line("nothing", 0, 0) >>
    ELSE << Line("header", 0, 0) >>
         \o FormatLoop(ops, 1, 0)
         \o UnparseableLines(unp)
         \o << Line("footer", 0, 0) >>

(***************************************************************************)
(* parse_restructure_reply.  A reply is a string over the tokens " ",       *)
(* the digits, and the words "apply", "APPLY", "all", "ALL", "cancel",      *)
(* "CANCEL" and "x".                                                        *)
(***************************************************************************)
RECURSIVE TrimStart(_)
TrimStart(s) == IF s # << >> /\ s[1] = " " THEN TrimStart(Tail(s)) ELSE s

RECURSIVE TrimEnd(_)
TrimEnd(s) ==
    IF s # << >> /\ s[Len(s)] = " " THEN TrimEnd(SubSeq(s, 1, Len(s) - 1)) ELSE s

\* Trim that leaves the whitespace at the end.
Trim_StartOnly(s) == TrimStart(s)

\* str::trim
Trim(s) == TrimEnd(TrimStart(s))

\* str::to_lowercase
ToLowercase(s) ==
    [i \in 1..Len(s) |-> IF s[i] = "APPLY" THEN "apply"
                         ELSE IF s[i] = "CANCEL" THEN "cancel"
                         ELSE IF s[i] = "ALL" THEN "all"
                         ELSE s[i]]

\* str::split_whitespace
RECURSIVE SplitWhitespace(_, _)
SplitWhitespace(s, cur) ==
    IF s = << >> THEN (IF cur = << >> THEN << >> ELSE << cur >>)
    ELSE IF s[1] = " "
         THEN (IF cur = << >> THEN << >> ELSE << cur >>) \o SplitWhitespace(Tail(s), << >>)
         ELSE SplitWhitespace(Tail(s), Append(cur, s[1]))

IsDigit(t) == \E d \in 1..Len(DigitTok) : DigitTok[d] = t
DigitValue(t) == (CHOOSE d \in 1..Len(DigitTok) : DigitTok[d] = t) - 1

\* part.parse::<usize>()
ParsesAsUsize(part) == part # << >> /\ \A k \in 1..Len(part) : IsDigit(part[k])

RECURSIVE UsizeValue(_)
UsizeValue(part) ==
    IF part = << >> THEN 0
    ELSE UsizeValue(SubSeq(part, 1, Len(part) - 1)) * 10 + DigitValue(part[Len(part)])

\* SelectLoop that pushes the video operation of a selected group without
\* its subtitle operations.
RECURSIVE SelectLoop_VideoOnly(_, _, _, _)
SelectLoop_VideoOnly(ops, indices, i, current_index) ==
    IF i > Len(ops) THEN << >>
    ELSE IF ~ops[i].is_subtitle
    THEN IF (current_index + 1) \in indices
         THEN << ops[i] >>
              \o SelectLoop_VideoOnly(ops, indices, SkipSubtitles(ops, i + 1),
                                      current_index + 1)
         ELSE SelectLoop_VideoOnly(ops, indices, SkipSubtitles(ops, i + 1),
                                   current_index + 1)
    ELSE SelectLoop_VideoOnly(ops, indices, i + 1, current_index)

\* SelectLoop with current_index compared before it is incremented.
RECURSIVE SelectLoop_ZeroBased(_, _, _, _)
SelectLoop_ZeroBased(ops, indices, i, current_index) ==
    IF i > Len(ops) THEN << >>
    ELSE IF ~ops[i].is_subtitle
    THEN IF current_index \in indices
         THEN SubSeq(ops, i, SkipSubtitles(ops, i + 1) - 1)
              \o SelectLoop_ZeroBased(ops, indices, SkipSubtitles(ops, i + 1),
                                      current_index + 1)
         ELSE SelectLoop_ZeroBased(ops, indices, SkipSubtitles(ops, i + 1),
                                   current_index + 1)
    ELSE SelectLoop_ZeroBased(ops, indices, i + 1, current_index)

\* The loop "while i < plan.operations.len()" of the index branch, i counted
\* from 1: the operations it pushes to selected_ops from operation i on.
\* indices is the set of the elements of the vector (indices.contains).
RECURSIVE SelectLoop(_, _, _, _)
SelectLoop(ops, indices, i, current_index) ==
    IF i > Len(ops) THEN << >>
    ELSE IF ~ops[i].is_subtitle
    THEN IF (current_index + 1) \in indices
         THEN SubSeq(ops, i, SkipSubtitles(ops, i + 1) - 1)
              \o SelectLoop(ops, indices, SkipSubtitles(ops, i + 1), current_index + 1)
         ELSE SelectLoop(ops, indices, SkipSubtitles(ops, i + 1), current_index + 1)
    ELSE SelectLoop(ops, indices, i + 1, current_index)

\* current_index after the loop: it was incremented at every operation that is
\* not a subtitle.
FinalIndex(ops) == Cardinality({ i \in 1..Len(ops) : ~ops[i].is_subtitle })

\* indices.dedup() of a sorted vector
RECURSIVE Dedup(_)
Dedup(s) ==
    IF Len(s) <= 1 THEN s
    ELSE IF s[1] = s[2] THEN Dedup(Tail(s))
    ELSE << s[1] >> \o Dedup(Tail(s))

\* An Err with the values its message is formatted from.
ParseErr(e, a) == [ok |-> FALSE, err |-> e, arg |-> a, ops |-> << >>]
ParseOk(o) == [ok |-> TRUE, err |-> "", arg |-> << >>, ops |-> o]

\* FirstOutOfRange that finds every index in range.
FirstOutOfRange_None(indices, max_index) == << >>

\* The first index of the vector that is out of range, none if all are in range.
RECURSIVE FirstOutOfRange(_, _)
FirstOutOfRange(indices, max_index) ==
    IF indices = << >> THEN << >>
    ELSE IF indices[1] = 0 \/ indices[1] > max_index THEN << indices[1] >>
    ELSE FirstOutOfRange(Tail(indices), max_index)

\* Result<Vec<MoveOperation>, String>
parse_restructure_reply(reply_text, ops) ==
    LET r == ToLowercase(Trim(reply_text))
    IN  IF r = << "cancel" >> THEN ParseErr("Restructure cancelled", << >>)
        ELSE IF r = << "apply", " ", "all" >> \/ r = << "apply" >>
             THEN ParseOk(ops)
        ELSE IF StartsWith(r, << "apply", " " >>)
        THEN LET parts == SplitWhitespace(Trim(SubSeq(r, 3, Len(r))), << >>)
                 bad == { k \in 1..Len(parts) : ~ParsesAsUsize(parts[k]) }
             IN  IF bad # {}
                 THEN ParseErr("Invalid number", parts[Min(bad)])
                 ELSE LET indices == Dedup(SortNums([k \in 1..Len(parts) |->
                                                       UsizeValue(parts[k])]))
                          selected_ops == SelectLoop(ops, Range(indices), 1, 0)
                          max_index == FinalIndex(ops)
                          out == FirstOutOfRange(indices, max_index)
                      IN  IF selected_ops = << >>
                          THEN ParseErr("No valid operations selected", << >>)
                          ELSE IF out # << >>
                               THEN ParseErr("Index out of range",
                                             Digits(out[1]) \o << " " >>
                                             \o Digits(max_index))
                               ELSE ParseOk(selected_ops)
        ELSE ParseErr("Invalid reply", << >>)

(***************************************************************************)
(* execute_moves: the filesystem calls of one operation.                    *)
(***************************************************************************)
\* std::fs::create_dir_all(parent) fails when a component of parent is a file.
CreateDirFails(fs, target) == \E a \in Ancestors(target) : IsFile(fs, a)

\* std::fs::rename(source, target): "ok", or the kind of its error.
RenameOutcome(fs, ds, source, target) ==
    IF ~IsFile(fs, source) THEN "NotFound"
    ELSE IF IsDir(ds, target) THEN "IsADirectory"
    ELSE "ok"

\* The files after a successful rename: the target now holds the source's
\* content, whatever it held before.
Renamed(fs, source, target) ==
    [p \in (DOMAIN fs \ {source}) \cup {target} |->
        IF p = target THEN fs[source] ELSE fs[p]]

\* What the operating system does to the calls made for one operation, beyond
\* what the files and directories decide:
\*   "mkdir"         create_dir_all fails
\*   "EXDEV"         rename fails, source and target are on different filesystems
\*   "EXDEV_copy"    the same, and the copy fails leaving nothing at the target
\*   "EXDEV_partial" the same, and the copy fails leaving part of the data
\*   "EXDEV_remove"  the same, the copy succeeds and remove_file fails
\*   "EACCES"        rename fails, permission denied
\*   "Other"         rename fails with an error of kind ErrorKind::Other and an
\*                   errno other than 18 (the kind std::io gave, before it had
\*                   ErrorKind::Uncategorized, to every errno without a kind of
\*                   its own, such as ENOTEMPTY)
Faults == { "none", "mkdir", "EXDEV", "EXDEV_copy", "EXDEV_partial",
            "EXDEV_remove", "EACCES", "Other" }

FaultAt(flt, i) == IF i \in DOMAIN flt THEN flt[i] ELSE "none"

\* std::io::Error: raw_os_error() and kind()
IoError(raw, kind) == [raw |-> raw, kind |-> kind]

\* The errno the fallback is tested against.
EXDEV == 18

\* std::fs::rename(source, target): None for Ok, Some(error) for Err.
rename(fs, ds, source, target, fault) ==
    LET outcome == RenameOutcome(fs, ds, source, target)
    IN  IF outcome = "NotFound" THEN Some(IoError(Some(2), "NotFound"))
        ELSE IF outcome = "IsADirectory" THEN Some(IoError(Some(21), "IsADirectory"))
        ELSE IF fault \in { "EXDEV", "EXDEV_copy", "EXDEV_partial", "EXDEV_remove" }
             THEN Some(IoError(Some(EXDEV), "CrossesDevices"))
        ELSE IF fault = "EACCES" THEN Some(IoError(Some(13), "PermissionDenied"))
        ELSE IF fault = "Other" THEN Some(IoError(Some(39), "Other"))
        ELSE None

\* The condition under which copy and delete are tried after a failed rename.
TriesCopy_AnyError(e) == TRUE

TriesCopy(e) == e.raw = Some(EXDEV) \/ e.kind = "Other"

\* std::fs::copy(source, target): whether it is Ok, and the files after it.
\* Content id 0 is a file that holds only part of the data copied to it.
copy(fs, ds, source, target, fault) ==
    IF ~IsFile(fs, source) \/ IsDir(ds, target) \/ fault = "EXDEV_copy"
    THEN [ok |-> FALSE, files |-> fs]
    ELSE IF fault = "EXDEV_partial"
    THEN [ok |-> FALSE,
          files |-> [p \in DOMAIN fs \cup {target} |->
                       IF p = target THEN 0 ELSE fs[p]]]
    ELSE [ok |-> TRUE,
          files |-> [p \in DOMAIN fs \cup {target} |->
                       IF p = target THEN fs[source] ELSE fs[p]]]

\* std::fs::remove_file(source): whether it is Ok, and the files after it.
remove_file(fs, source, fault) ==
    IF fault = "EXDEV_remove" THEN [ok |-> FALSE, files |-> fs]
    ELSE [ok |-> TRUE, files |-> [p \in DOMAIN fs \ {source} |-> fs[p]]]

MoveResult(fs, ds, ok, error, made) ==
    [files |-> fs, dirs |-> ds, ok |-> ok, error |-> error, calls |-> made]

\* MoveOne with the successful copy counted whatever remove_file returns.
MoveOne_CopyIsSuccess(fs, ds, op, fault) ==
    LET source == op.source_path
        target == op.target_path
        made == ds \cup Ancestors(target)
        e == rename(fs, made, source, target, fault)
    IN  IF CreateDirFails(fs, target) \/ fault = "mkdir"
        THEN MoveResult(fs, ds, FALSE, "Failed to create directory",
                        << "create_dir_all" >>)
        ELSE IF e = None
        THEN MoveResult(Renamed(fs, source, target), made, TRUE, "",
                        << "create_dir_all", "rename" >>)
        ELSE IF TriesCopy(Unwrap(e))
        THEN LET c == copy(fs, made, source, target, fault)
                 d == remove_file(c.files, source, fault)
             IN  IF c.ok
                 THEN MoveResult(d.files, made, TRUE, "",
                                 << "create_dir_all", "rename", "copy", "remove_file" >>)
                 ELSE MoveResult(c.files, made, FALSE, "Failed to copy",
                                 << "create_dir_all", "rename", "copy" >>)
        ELSE MoveResult(fs, made, FALSE, "Failed to move",
                        << "create_dir_all", "rename" >>)

\* The body of "for op in operations" for one operation: the files and
\* directories after it, whether it counted as a success, the error it pushed,
\* and the filesystem calls it made.
MoveOne(fs, ds, op, fault) ==
    LET source == op.source_path
        target == op.target_path
        made == ds \cup Ancestors(target)
        e == rename(fs, made, source, target, fault)
    IN  IF CreateDirFails(fs, target) \/ fault = "mkdir"
        THEN MoveResult(fs, ds, FALSE, "Failed to create directory",
                        << "create_dir_all" >>)
        ELSE IF e = None
        THEN MoveResult(Renamed(fs, source, target), made, TRUE, "",
                        << "create_dir_all", "rename" >>)
        ELSE IF TriesCopy(Unwrap(e))
        THEN LET c == copy(fs, made, source, target, fault)
                 d == remove_file(c.files, source, fault)
             IN  IF c.ok
                 THEN IF d.ok
                      THEN MoveResult(d.files, made, TRUE, "",
                                      << "create_dir_all", "rename", "copy",
                                         "remove_file" >>)
                      ELSE MoveResult(d.files, made, FALSE,
                                      "Copied but failed to delete source",
                                      << "create_dir_all", "rename", "copy",
                                         "remove_file" >>)
                 ELSE MoveResult(c.files, made, FALSE, "Failed to copy",
                                 << "create_dir_all", "rename", "copy" >>)
        ELSE MoveResult(fs, made, FALSE, "Failed to move",
                        << "create_dir_all", "rename" >>)

ExecError(i, k) == [op |-> i, kind |-> k]

\* The number of errors the result itemizes.
MaxErrorLines == 10

\* ResultText with every error itemized.
ResultText_AllErrors(count, total, errs) ==
    << [kind |-> "files moved", n |-> << count, total >>, error |-> << >>] >>
    \o (IF errs = << >> THEN << >>
        ELSE << [kind |-> "errors", n |-> << Len(errs) >>, error |-> << >>] >>
             \o [i \in 1..Len(errs) |->
                   [kind |-> "error", n |-> << >>, error |-> << errs[i] >>]])

ResultLine(k, n, e) == [kind |-> k, n |-> n, error |-> e]

\* The string execute_moves returns, as its lines: the count of successes out
\* of the total, and when there are errors their number, the first
\* MaxErrorLines of them and the number of the others.
ResultText(count, total, errs) ==
    << ResultLine("files moved", << count, total >>, << >>) >>
    \o (IF errs = << >> THEN << >>
        ELSE << ResultLine("errors", << Len(errs) >>, << >>) >>
             \o [i \in 1..Min({ MaxErrorLines, Len(errs) }) |->
                   ResultLine("error", << >>, << errs[i] >>)]
             \o (IF Len(errs) > MaxErrorLines
                 THEN << ResultLine("more errors", << Len(errs) - MaxErrorLines >>, << >>) >>
                 ELSE << >>))

\* The loop of execute_moves from operation i on, st being the files, the
\* directories, success_count and errors before it.
RECURSIVE MovesFrom(_, _, _, _)
MovesFrom(st, ops, flt, i) ==
    IF i > Len(ops) THEN st
    ELSE LET r == MoveOne(st.files, st.dirs, ops[i], FaultAt(flt, i))
         IN  MovesFrom([files |-> r.files, dirs |-> r.dirs,
                        success_count |-> st.success_count + (IF r.ok THEN 1 ELSE 0),
                        errors |-> IF r.ok THEN st.errors
                                   ELSE Append(st.errors, ExecError(i, r.error))],
                       ops, flt, i + 1)

\* Result<String, String> of a whole call, and the files and directories
\* after it.
execute_moves(fs, ds, ops, flt) ==
    LET st == MovesFrom([files |-> fs, dirs |-> ds, success_count |-> 0,
                         errors |-> << >>], ops, flt, 1)
    IN  [ok |-> st.success_count # 0,
         text |-> ResultText(st.success_count, Len(ops), st.errors),
         files |-> st.files, dirs |-> st.dirs]

(***************************************************************************)
(* Initial states.                                                          *)
(***************************************************************************)
NoResult == [ok |-> FALSE, err |-> "", meta |-> NoMeta]
NoParse == [ok |-> FALSE, err |-> "", arg |-> << >>, ops |-> << >>]
NoResponse == [kind |-> "none", text |-> << >>, to |-> 0]
NoFirstPlan == [started |-> FALSE, whole |-> FALSE, finished |-> FALSE,
                allOk |-> FALSE, ids |-> {}]

\* The directories a set of files needs.
DirsOf(paths) == UNION { Ancestors(p) : p \in paths }

IsVideoPath(p) ==
    /\ HasExtension(FileName(p))
    /\ (<< "." >> \o Extension(FileName(p))) \in VIDEO_EXTENSIONS

\* Outcomes of the guessit process used in the initial states.
OutOk == Outcome("json", Some(<< "T" >>), None, Some(1), EpNumber(1), Some(<< "mkv" >>))
OutWrongExt == Outcome("json", Some(<< "T" >>), None, Some(1), EpNumber(1), Some(<< "txt" >>))
OutNoExt == Outcome("json", Some(<< "T" >>), None, Some(1), EpNumber(1), None)
OutNoSeason == Outcome("json", Some(<< "T", ":" >>), Some(1999), None, EpAbsent, Some(<< "mkv" >>))
OutNoEpisode == Outcome("json", Some(<< "T" >>), None, Some(1), EpArray(<< >>), Some(<< "mkv" >>))
OutTimeout == Outcome("timeout", None, None, None, EpAbsent, None)
Outcomes == { OutOk, OutWrongExt, OutNoExt, OutNoSeason, OutNoEpisode, OutTimeout }

\* Where a video with outcome OutOk belongs.
Organized(md) ==
    LET meta == call_guessit(<< << "x", ".", "mkv" >> >>, OutOk).meta
    IN  IF md = "TV" THEN generate_tv_path(meta).path ELSE generate_movie_path(meta).path

\* The files an initial directory tree of Spec is made of.
Universe(md) ==
    << << << "x", ".", "mkv" >> >>,
       << << "x", "y", ".", "mkv" >> >>,
       << << "x", "y", ".", "en", ".", "srt" >> >>,
       << << "y" >>, << "x", ".", "mkv" >> >>,
       Organized(md) >>

InitRest ==
    /\ pc = "idle"
    /\ round = 0
    /\ video_files = << >>
    /\ chunkStart = 1
    /\ tasks = << >>
    /\ joinIdx = 0
    /\ operations = << >>
    /\ unparseable_files = << >>
    /\ genResult = "none"
    /\ listing = << >>
    /\ reply = << >>
    /\ parsed = NoParse
    /\ selected = << >>
    /\ execIdx = 0
    /\ success_count = 0
    /\ errors = << >>
    /\ execResult = "none"
    /\ resultText = << >>
    /\ response = NoResponse
    /\ calls = << >>
    /\ faults = << >>
    /\ firstPlan = NoFirstPlan
    /\ restructure_plans = << >>
    /\ lastId = 0
    /\ resolveArg = << >>
    /\ resolveRes = << >>
    /\ matchArg = << >>
    /\ matchRes = << >>
    /\ http = << >>
    /\ handshake = << >>
    /\ dispatch = << >>

Init ==
    /\ media \in { "TV", "Movie" }
    /\ \/ /\ rootKind = "dir"
          /\ \E S \in SUBSET (1..Len(Universe(media))) :
                /\ Cardinality(S) <= MaxFiles
                /\ files = [p \in { Universe(media)[i] : i \in S } |->
                              CHOOSE i \in S : Universe(media)[i] = p]
          /\ dirs = DirsOf(DOMAIN files)
          /\ unreadable \in SUBSET (dirs \cap { << << "y" >> >> })
          /\ oracle \in [{ files[p] : p \in { q \in DOMAIN files : IsVideoPath(q) } }
                          -> Outcomes]
       \/ /\ rootKind \in { "missing", "file" }
          /\ files = << >>
          /\ dirs = {}
          /\ unreadable = {}
          /\ oracle = << >>
    /\ InitRest

(***************************************************************************)
(* generate_restructure_plan.                                               *)
(***************************************************************************)
Task(f, st, r) == [file |-> f, state |-> st, result |-> r]

\* ChunkEnd without chunking: every file is in the one chunk.
ChunkEnd_Unbounded == Len(video_files)

\* The last index of video_files that belongs to the current chunk.
ChunkEnd == Min({ chunkStart + batch_size - 1, Len(video_files) })

Running == { i \in 1..Len(tasks) : tasks[i].state = "running" }

\* The call: the scan, and the early returns.
Generate ==
    /\ pc \in { "idle", "done" }
    /\ round < MaxRounds
    /\ round' = round + 1
    /\ LET scan == scan_files_recursive(rootKind, files, dirs, unreadable, VIDEO_EXTENSIONS)
       IN  /\ video_files' = scan.files
           /\ genResult' = IF ~scan.ok THEN "Err"
                           ELSE IF scan.files = << >> THEN "Ok" ELSE "none"
           /\ pc' = IF ~scan.ok THEN "failed"
                    ELSE IF scan.files = << >> THEN "planned" ELSE "spawn"
    /\ chunkStart' = 1
    /\ tasks' = << >>
    /\ joinIdx' = 0
    /\ operations' = << >>
    /\ unparseable_files' = << >>
    /\ listing' = << >>
    /\ reply' = << >>
    /\ parsed' = NoParse
    /\ selected' = << >>
    /\ execIdx' = 0
    /\ success_count' = 0
    /\ errors' = << >>
    /\ execResult' = "none"
    /\ resultText' = << >>
    /\ response' = response
    /\ calls' = << >>
    /\ UNCHANGED << rootKind, files, dirs, unreadable, oracle, faults, media, firstPlan,
                    restructure_plans, lastId, resolveArg, resolveRes, matchArg, matchRes, http, handshake, dispatch >>

\* tasks.push(tokio::spawn(..)) for the next file of the chunk.
SpawnTask ==
    /\ pc = "spawn"
    /\ LET f == video_files[Len(tasks) + 1]
       IN  tasks' = Append(tasks, Task(f, "running", NoResult))
    /\ pc' = IF Len(tasks) + 1 = ChunkEnd THEN "join" ELSE "spawn"
    /\ UNCHANGED << rootKind, files, dirs, unreadable, oracle, faults, media, round,
                    video_files, chunkStart, joinIdx, operations, unparseable_files,
                    genResult, listing, reply, parsed, selected, execIdx,
                    success_count, errors, execResult, resultText, response, calls, firstPlan, restructure_plans, lastId, resolveArg,
                    resolveRes, matchArg, matchRes, http, handshake, dispatch >>

\* A spawned task runs call_guessit to its end.
TaskComplete ==
    /\ \E i \in Running :
          tasks' = [tasks EXCEPT ![i] =
                      Task(tasks[i].file, "finished",
                           call_guessit(tasks[i].file, oracle[files[tasks[i].file]]))]
    /\ UNCHANGED << rootKind, files, dirs, unreadable, oracle, faults, media, pc, round,
                    video_files, chunkStart, joinIdx, operations, unparseable_files,
                    genResult, listing, reply, parsed, selected, execIdx,
                    success_count, errors, execResult, resultText, response, calls, firstPlan, restructure_plans, lastId, resolveArg,
                    resolveRes, matchArg, matchRes, http, handshake, dispatch >>

\* MoreChunks with the loop left at the first chunk that had a failed inference.
MoreChunks_StopAtFailure ==
    /\ joinIdx + 1 < Len(video_files)
    /\ \A i \in 1..(joinIdx + 1) : tasks[i].result.ok

\* Whether the loop over the chunks goes on after the task joinIdx + 1.
MoreChunks == joinIdx + 1 < Len(video_files)

\* NextAwaited with the tasks of a chunk awaited from the last to the first.
NextAwaited_Reversed == chunkStart + ChunkEnd - (joinIdx + 1)

\* "for task in tasks": the task awaited next is the next in spawning order.
NextAwaited == joinIdx + 1

\* task.await of the next task of the chunk, and the loop body for its result;
\* after the last task of the chunk, the next chunk or the return.
JoinTask ==
    /\ pc = "join"
    /\ tasks[NextAwaited].state = "finished"
    /\ LET t == tasks[NextAwaited]
           r == ProcessResult(files, dirs, unreadable, media, t.file, t.result)
       IN  /\ operations' = operations \o r.ops
           /\ unparseable_files' = unparseable_files \o r.unparseable
    /\ joinIdx' = joinIdx + 1
    /\ IF joinIdx + 1 < ChunkEnd
       THEN UNCHANGED << pc, chunkStart, genResult >>
       ELSE IF MoreChunks
            THEN /\ pc' = "spawn"
                 /\ chunkStart' = chunkStart + batch_size
                 /\ UNCHANGED genResult
            ELSE /\ pc' = "planned"
                 /\ genResult' = "Ok"
                 /\ UNCHANGED chunkStart
    /\ UNCHANGED << rootKind, files, dirs, unreadable, oracle, faults, media, round,
                    video_files, tasks, listing, reply, parsed, selected, execIdx,
                    success_count, errors, execResult, resultText, response, calls, firstPlan, restructure_plans, lastId, resolveArg,
                    resolveRes, matchArg, matchRes, http, handshake, dispatch >>

(***************************************************************************)
(* The caller of the core: presentation, reply, execution.                  *)
(***************************************************************************)
\* The handler of /restructure after generate_restructure_plan returned Ok.
Present ==
    /\ pc = "planned"
    /\ genResult = "Ok"
    /\ listing' = format_restructure_plan(operations, unparseable_files)
    /\ pc' = IF operations = << >> /\ unparseable_files = << >> THEN "done"
             ELSE "presented"
    /\ UNCHANGED << rootKind, files, dirs, unreadable, oracle, faults, media, round,
                    video_files, chunkStart, tasks, joinIdx, operations,
                    unparseable_files, genResult, reply, parsed, selected, execIdx,
                    success_count, errors, execResult, resultText, response, calls, firstPlan, restructure_plans, lastId, resolveArg,
                    resolveRes, matchArg, matchRes, http, handshake, dispatch >>

ApplyReply(k) == << "apply", " " >> \o Digits(k)

\* The replies a user sends to a presented plan.
Replies(ops) ==
    { << "apply", " ", "all" >>, << "cancel" >> }
    \cup { ApplyReply(k) : k \in 0..(FinalIndex(ops) + 1) }

\* A reply to the presented plan: parse_restructure_reply, then execute_moves
\* on what it selected.
InterpretReply ==
    /\ pc = "presented"
    /\ \E r \in Replies(operations) :
          /\ reply' = r
          /\ parsed' = parse_restructure_reply(r, operations)
    /\ selected' = parsed'.ops
    /\ pc' = IF parsed'.ok THEN "exec"
             ELSE IF parsed'.err = "Restructure cancelled" THEN "done"
             ELSE "presented"
    /\ firstPlan' =
          IF parsed'.ok /\ ~firstPlan.started
          THEN [started |-> TRUE, whole |-> parsed'.ops = operations,
                finished |-> FALSE, allOk |-> FALSE,
                ids |-> { files[parsed'.ops[k].source_path] : k \in 1..Len(parsed'.ops) }]
          ELSE firstPlan
    /\ execIdx' = 0
    /\ success_count' = 0
    /\ errors' = << >>
    /\ execResult' = "none"
    /\ resultText' = << >>
    /\ response' = response
    /\ calls' = << >>
    /\ UNCHANGED << rootKind, files, dirs, unreadable, oracle, faults, media, round,
                    video_files, chunkStart, tasks, joinIdx, operations,
                    unparseable_files, genResult, listing, restructure_plans, lastId, resolveArg, resolveRes, matchArg, matchRes, http, handshake, dispatch >>

\* execute_moves with the loop left at the first operation that failed.
AfterOperation_AbortOnError(ok) == IF ok THEN execIdx + 1 ELSE Len(selected)

\* How many operations of the list are behind the loop after one iteration.
AfterOperation(ok) == execIdx + 1

\* execute_moves: one iteration of "for op in operations".
ExecStep ==
    /\ pc = "exec"
    /\ execIdx < Len(selected)
    /\ LET r == MoveOne(files, dirs, selected[execIdx + 1], FaultAt(faults, execIdx + 1))
       IN  /\ files' = r.files
           /\ dirs' = r.dirs
           /\ success_count' = IF r.ok THEN success_count + 1 ELSE success_count
           /\ errors' = IF r.ok THEN errors
                        ELSE Append(errors, ExecError(execIdx + 1, r.error))
           /\ calls' = calls \o [k \in 1..Len(r.calls) |-> << execIdx + 1, r.calls[k] >>]
           /\ execIdx' = AfterOperation(r.ok)
    /\ UNCHANGED << rootKind, unreadable, oracle, faults, media, pc, round,
                    video_files, chunkStart, tasks, joinIdx, operations,
                    unparseable_files, genResult, listing, reply, parsed, selected,
                    execResult, resultText, response, firstPlan, restructure_plans, lastId, resolveArg,
                    resolveRes, matchArg, matchRes, http, handshake, dispatch >>

\* execute_moves: after the loop, the result.
ExecReturn ==
    /\ pc = "exec"
    /\ execIdx = Len(selected)
    /\ execResult' = IF success_count = 0 THEN "Err" ELSE "Ok"
    /\ resultText' = ResultText(success_count, Len(selected), errors)
    /\ UNCHANGED << response, calls >>
    /\ pc' = "done"
    /\ firstPlan' = IF firstPlan.finished THEN firstPlan
                    ELSE [firstPlan EXCEPT !.finished = TRUE,
                                           !.allOk = (success_count = Len(selected))]
    /\ UNCHANGED << rootKind, files, dirs, unreadable, oracle, faults, media, round,
                    video_files, chunkStart, tasks, joinIdx, operations,
                    unparseable_files, genResult, listing, reply, parsed, selected,
                    execIdx, success_count, errors, restructure_plans, lastId, resolveArg, resolveRes, matchArg, matchRes, http, handshake, dispatch >>

Next ==
    \/ Generate
    \/ SpawnTask
    \/ TaskComplete
    \/ JoinTask
    \/ Present
    \/ InterpretReply
    \/ ExecStep
    \/ ExecReturn

Spec == Init /\ [][Next]_vars

(***************************************************************************)
(* SpecBatch: generate_restructure_plan over a directory of more than       *)
(* batch_size videos, one of which may fail to be inferred.                 *)
(***************************************************************************)
BatchVideo(k) == << << "x" >> \o Digits(k) \o << ".", "mkv" >> >>

OutEpisode(k) ==
    Outcome("json", Some(<< "T" >>), None, Some(1), EpNumber(k), Some(<< "mkv" >>))

InitBatch ==
    /\ media = "TV"
    /\ rootKind = "dir"
    /\ files = [p \in { BatchVideo(k) : k \in 1..BatchFiles } |->
                  CHOOSE k \in 1..BatchFiles : BatchVideo(k) = p]
    /\ dirs = {}
    /\ unreadable = {}
    /\ \E f \in 0..BatchFiles :
          oracle = [k \in 1..BatchFiles |-> IF k = f THEN OutTimeout ELSE OutEpisode(k)]
    /\ InitRest

NextBatch ==
    \/ Generate
    \/ SpawnTask
    \/ TaskComplete
    \/ JoinTask

SpecBatch == InitBatch /\ [][NextBatch]_vars

(***************************************************************************)
(* SpecEpisodes: generate_restructure_plan for one video whose guessit      *)
(* answer has an array of up to MaxEpisodes episode numbers, in any order.  *)
(***************************************************************************)
EpisodeNumbers == { 1, 2, 3, 10 }

EpisodeArrays == UNION { [1..n -> EpisodeNumbers] : n \in 0..MaxEpisodes }

OutEpisodes(eps) ==
    Outcome("json", Some(<< "T" >>), None, Some(1), EpArray(eps), Some(<< "mkv" >>))

InitEpisodes ==
    /\ media = "TV"
    /\ rootKind = "dir"
    /\ files = [p \in { << << "x", ".", "mkv" >> >> } |-> 1]
    /\ dirs = {}
    /\ unreadable = {}
    /\ \E eps \in EpisodeArrays : oracle = [k \in { 1 } |-> OutEpisodes(eps)]
    /\ InitRest

SpecEpisodes == InitEpisodes /\ [][NextBatch]_vars

(***************************************************************************)
(* SpecResolve: resolve_collision alone, over directories in which the      *)
(* target and a run of its candidates are taken, one of them possibly free. *)
(***************************************************************************)
ResolveTargets == { << << "x", ".", "mkv" >> >>, << << "x" >> >> }

\* The target (i = 0) and its i-th candidate, written out.
Taken(target, i) ==
    IF i = 0 THEN target
    ELSE IF target = << << "x" >> >> THEN << << "x", "-" >> \o Digits(i) >>
    ELSE << << "x", "-" >> \o Digits(i) \o << ".", "mkv" >> >>

InitResolve ==
    /\ media = "TV"
    /\ rootKind = "dir"
    /\ restructure_plans = << >>
    /\ lastId = 0
    /\ resolveArg \in ResolveTargets
    /\ \E n \in 0..(MaxSuffix + 1 + ExtraTaken) : \E h \in 0..n :
          files = [p \in { Taken(resolveArg, i) : i \in (0..(n - 1)) \ {h} } |->
                     1 + CHOOSE i \in 0..(n - 1) : Taken(resolveArg, i) = p]
    /\ dirs = {}
    /\ unreadable = {}
    /\ oracle = << >>
    /\ pc = "resolve"
    /\ round = 0
    /\ video_files = << >>
    /\ chunkStart = 1
    /\ tasks = << >>
    /\ joinIdx = 0
    /\ operations = << >>
    /\ unparseable_files = << >>
    /\ genResult = "none"
    /\ listing = << >>
    /\ reply = << >>
    /\ parsed = NoParse
    /\ selected = << >>
    /\ execIdx = 0
    /\ success_count = 0
    /\ errors = << >>
    /\ execResult = "none"
    /\ resultText = << >>
    /\ response = NoResponse
    /\ calls = << >>
    /\ faults = << >>
    /\ firstPlan = NoFirstPlan
    /\ resolveRes = << >>
    /\ matchArg = << >>
    /\ matchRes = << >>
    /\ http = << >>
    /\ handshake = << >>
    /\ dispatch = << >>

\* A call of resolve_collision.
ResolveCall ==
    /\ pc = "resolve"
    /\ resolveRes' = resolve_collision(files, dirs, resolveArg)
    /\ pc' = "resolved"
    /\ UNCHANGED << rootKind, files, dirs, unreadable, oracle, faults, media, round,
                    video_files, chunkStart, tasks, joinIdx, operations,
                    unparseable_files, genResult, listing, reply, parsed, selected,
                    execIdx, success_count, errors, execResult, resultText, response, calls, firstPlan,
                    restructure_plans, lastId, resolveArg, matchArg, matchRes, http, handshake, dispatch >>

SpecResolve == InitResolve /\ [][ResolveCall]_vars

(***************************************************************************)
(* SpecMatch: find_matching_subtitles alone, for a video of a directory     *)
(* that holds any of the entries of MatchUniverse.                          *)
(***************************************************************************)
\* Entries with the stem of the video, with a longer and with another stem,
\* with a subtitle extension, another one and none, beside the video and in
\* a subdirectory, and a directory named like a subtitle.
MatchUniverse ==
    { << << "x", ".", "mkv" >> >>,
      << << "x", ".", "srt" >> >>,
      << << "x", ".", "en", ".", "srt" >> >>,
      << << "x", "y", ".", "ass" >> >>,
      << << "y", ".", "srt" >> >>,
      << << "x", ".", "txt" >> >>,
      << << "x" >> >>,
      << << "y" >>, << "x", ".", "mkv" >> >>,
      << << "y" >>, << "x", ".", "srt" >> >>,
      << << "x", ".", "vtt" >>, << "y", ".", "srt" >> >> }

InitMatch ==
    /\ media = "TV"
    /\ rootKind = "dir"
    /\ \E S \in SUBSET MatchUniverse :
          files = [p \in S |-> 1 + Cardinality({ q \in S : PathLess(q, p) })]
    /\ dirs = DirsOf(DOMAIN files)
    /\ unreadable = {}
    /\ oracle = << >>
    /\ matchArg \in { p \in DOMAIN files : IsVideoPath(p) }
    /\ matchRes = << >>
    /\ http = << >>
    /\ handshake = << >>
    /\ dispatch = << >>
    /\ pc = "match"
    /\ round = 0
    /\ video_files = << >>
    /\ chunkStart = 1
    /\ tasks = << >>
    /\ joinIdx = 0
    /\ operations = << >>
    /\ unparseable_files = << >>
    /\ genResult = "none"
    /\ listing = << >>
    /\ reply = << >>
    /\ parsed = NoParse
    /\ selected = << >>
    /\ execIdx = 0
    /\ success_count = 0
    /\ errors = << >>
    /\ execResult = "none"
    /\ resultText = << >>
    /\ response = NoResponse
    /\ calls = << >>
    /\ faults = << >>
    /\ firstPlan = NoFirstPlan
    /\ restructure_plans = << >>
    /\ lastId = 0
    /\ resolveArg = << >>
    /\ resolveRes = << >>

\* A call of find_matching_subtitles.
MatchCall ==
    /\ pc = "match"
    /\ matchRes' = find_matching_subtitles(files, unreadable, matchArg)
    /\ pc' = "matched"
    /\ UNCHANGED << rootKind, files, dirs, unreadable, oracle, faults, media, round,
                    video_files, chunkStart, tasks, joinIdx, operations,
                    unparseable_files, genResult, listing, reply, parsed, selected,
                    execIdx, success_count, errors, execResult, resultText, response, calls, firstPlan,
                    restructure_plans, lastId, resolveArg, resolveRes, matchArg,
                    http, handshake, dispatch >>

SpecMatch == InitMatch /\ [][MatchCall]_vars

(***************************************************************************)
(* SpecTransmission: the session-token handshake with Transmission, as      *)
(* request_add_torrent and as request_transmission_with_retry make it, each *)
(* getting the same responses to its first and to its second request.       *)
(***************************************************************************)
\* hyper::Result<Response<Body>>: an error of the transport, or a response
\* with its status and its X-Transmission-Session-Id header.
TransportError == [kind |-> "error", status |-> 0, session |-> None]
HttpResponse(status, session) == [kind |-> "http", status |-> status, session |-> session]

HttpResponses ==
    { TransportError,
      HttpResponse(200, None),
      HttpResponse(409, Some("id")),
      HttpResponse(409, None),
      HttpResponse(500, None) }

\* StatusCode::is_success
is_success(status) == status >= 200 /\ status < 300

HandshakeFunctions == { "request_add_torrent", "request_transmission_with_retry" }

Handshake(at, sent, result) == [pc |-> at, sent |-> sent, result |-> result]

InitTransmission ==
    /\ http \in [1..2 -> HttpResponses]
    /\ handshake = [f \in HandshakeFunctions |-> Handshake("first", << >>, "none")]
    /\ dispatch = << >>
    /\ media = "TV"
    /\ rootKind = "dir"
    /\ files = << >>
    /\ dirs = {}
    /\ unreadable = {}
    /\ oracle = << >>
    /\ pc = "transmission"
    /\ round = 0
    /\ video_files = << >>
    /\ chunkStart = 1
    /\ tasks = << >>
    /\ joinIdx = 0
    /\ operations = << >>
    /\ unparseable_files = << >>
    /\ genResult = "none"
    /\ listing = << >>
    /\ reply = << >>
    /\ parsed = NoParse
    /\ selected = << >>
    /\ execIdx = 0
    /\ success_count = 0
    /\ errors = << >>
    /\ execResult = "none"
    /\ resultText = << >>
    /\ response = NoResponse
    /\ calls = << >>
    /\ faults = << >>
    /\ firstPlan = NoFirstPlan
    /\ restructure_plans = << >>
    /\ lastId = 0
    /\ resolveArg = << >>
    /\ resolveRes = << >>
    /\ matchArg = << >>
    /\ matchRes = << >>

\* What the handshake variables leave alone.
TransmissionUnchanged ==
    UNCHANGED << rootKind, files, dirs, unreadable, oracle, faults, media, pc, round,
                 video_files, chunkStart, tasks, joinIdx, operations,
                 unparseable_files, genResult, listing, reply, parsed, selected,
                 execIdx, success_count, errors, execResult, resultText, response,
                 calls, firstPlan, restructure_plans, lastId, resolveArg, resolveRes,
                 matchArg, matchRes, http, dispatch >>

\* request_add_torrent up to the answer to its first request.
AddTorrentFirst ==
    /\ pc = "transmission"
    /\ handshake["request_add_torrent"].pc = "first"
    /\ LET r == http[1]
           sent == << None >>
       IN  handshake' = [handshake EXCEPT !["request_add_torrent"] =
              IF r.kind = "error" THEN Handshake("done", sent, "Err")
              ELSE IF r.status = 409
                   THEN IF ~IsSome(r.session) THEN Handshake("done", sent, "Err")
                        ELSE Handshake("retry", sent, "none")
              ELSE Handshake("done", sent, "Err")]
    /\ TransmissionUnchanged

\* request_add_torrent from its second request on: the result is unwrapped
\* and its status is not looked at.
AddTorrentRetry ==
    /\ pc = "transmission"
    /\ handshake["request_add_torrent"].pc = "retry"
    /\ LET r == http[2]
           sent == Append(handshake["request_add_torrent"].sent, http[1].session)
       IN  handshake' = [handshake EXCEPT !["request_add_torrent"] =
              IF r.kind = "error" THEN Handshake("done", sent, "panic")
              ELSE Handshake("done", sent, "Ok")]
    /\ TransmissionUnchanged

\* request_transmission_with_retry up to the answer to its first request.
WithRetryFirst ==
    /\ pc = "transmission"
    /\ handshake["request_transmission_with_retry"].pc = "first"
    /\ LET r == http[1]
           sent == << None >>
       IN  handshake' = [handshake EXCEPT !["request_transmission_with_retry"] =
              IF r.kind = "error" THEN Handshake("done", sent, "Err")
              ELSE IF r.status = 409
                   THEN IF ~IsSome(r.session) THEN Handshake("done", sent, "Err")
                        ELSE Handshake("retry", sent, "none")
              ELSE IF is_success(r.status) THEN Handshake("done", sent, "Ok")
              ELSE Handshake("done", sent, "Err")]
    /\ TransmissionUnchanged

\* request_transmission_with_retry from its second request on.
WithRetryRetry ==
    /\ pc = "transmission"
    /\ handshake["request_transmission_with_retry"].pc = "retry"
    /\ LET r == http[2]
           sent == Append(handshake["request_transmission_with_retry"].sent,
                          http[1].session)
       IN  handshake' = [handshake EXCEPT !["request_transmission_with_retry"] =
              IF r.kind = "error" THEN Handshake("done", sent, "Err")
              ELSE IF is_success(r.status) THEN Handshake("done", sent, "Ok")
              ELSE Handshake("done", sent, "Err")]
    /\ TransmissionUnchanged

NextTransmission ==
    \/ AddTorrentFirst
    \/ AddTorrentRetry
    \/ WithRetryFirst
    \/ WithRetryRetry

SpecTransmission == InitTransmission /\ [][NextTransmission]_vars

(***************************************************************************)
(* SpecDispatch: dispatch_from_reply alone, for an index of the 16-bit      *)
(* range, a search result list of up to MaxTorrents torrents that the       *)
(* reply text does or does not match, and a build with or without overflow  *)
(* checks.                                                                  *)
(***************************************************************************)
U16 == 65536

\* The indices a reply can carry: the ends of the range of u16 and the first
\* positions of a list and beyond.
Indices == { 0, U16 - 1 } \cup (1..(MaxTorrents + 1))

\* index - 1 on u16: a panic in a build with overflow checks, the value
\* modulo 2^16 in a build without.
SubU16(a, b, overflow_checks) ==
    IF a - b >= 0 THEN [panic |-> FALSE, value |-> a - b]
    ELSE IF overflow_checks THEN [panic |-> TRUE, value |-> 0]
    ELSE [panic |-> FALSE, value |-> (a - b) % U16]

\* Result<(Option<Media>, TorrentLocation), String> with the position in the
\* list, counted from 1, of the torrent returned; kind is "panic" when the
\* call did not return.
DispatchResult(kind, torrent) == [kind |-> kind, torrent |-> torrent]

dispatch_from_reply(index, found, len, overflow_checks) ==
    LET real_index == SubU16(index, 1, overflow_checks)
    IN  IF real_index.panic THEN DispatchResult("panic", 0)
        ELSE IF ~found THEN DispatchResult("Err", 0)
        ELSE IF real_index.value < len THEN DispatchResult("Ok", real_index.value + 1)
        ELSE DispatchResult("Err", 0)

InitDispatch ==
    /\ \E index \in Indices : \E len \in 0..MaxTorrents :
       \E found \in BOOLEAN : \E overflow_checks \in BOOLEAN :
          dispatch = [index |-> index, len |-> len, found |-> found,
                      overflow_checks |-> overflow_checks,
                      real_index |-> << >>, result |-> DispatchResult("none", 0)]
    /\ http = << >>
    /\ handshake = << >>
    /\ media = "TV"
    /\ rootKind = "dir"
    /\ files = << >>
    /\ dirs = {}
    /\ unreadable = {}
    /\ oracle = << >>
    /\ pc = "dispatch"
    /\ round = 0
    /\ video_files = << >>
    /\ chunkStart = 1
    /\ tasks = << >>
    /\ joinIdx = 0
    /\ operations = << >>
    /\ unparseable_files = << >>
    /\ genResult = "none"
    /\ listing = << >>
    /\ reply = << >>
    /\ parsed = NoParse
    /\ selected = << >>
    /\ execIdx = 0
    /\ success_count = 0
    /\ errors = << >>
    /\ execResult = "none"
    /\ resultText = << >>
    /\ response = NoResponse
    /\ calls = << >>
    /\ faults = << >>
    /\ firstPlan = NoFirstPlan
    /\ restructure_plans = << >>
    /\ lastId = 0
    /\ resolveArg = << >>
    /\ resolveRes = << >>
    /\ matchArg = << >>
    /\ matchRes = << >>

\* A call of dispatch_from_reply.
DispatchCall ==
    /\ pc = "dispatch"
    /\ LET real_index == SubU16(dispatch.index, 1, dispatch.overflow_checks)
       IN  dispatch' = [dispatch EXCEPT
              !.real_index = IF real_index.panic THEN << >> ELSE << real_index.value >>,
              !.result = dispatch_from_reply(dispatch.index, dispatch.found,
                                             dispatch.len, dispatch.overflow_checks)]
    /\ pc' = "dispatched"
    /\ UNCHANGED << rootKind, files, dirs, unreadable, oracle, faults, media, round,
                    video_files, chunkStart, tasks, joinIdx, operations,
                    unparseable_files, genResult, listing, reply, parsed, selected,
                    execIdx, success_count, errors, execResult, resultText, response,
                    calls, firstPlan, restructure_plans, lastId, resolveArg, resolveRes,
                    matchArg, matchRes, http, handshake >>

SpecDispatch == InitDispatch /\ [][DispatchCall]_vars

(***************************************************************************)
(* SpecReply: presentation and reply over plans of up to MaxListed +        *)
(* ExtraGroups video groups, as generate_restructure_plan builds them.      *)
(***************************************************************************)
GroupVideo(k) ==
    MoveOperation(BatchVideo(k),
                  generate_tv_path(call_guessit(BatchVideo(k), OutEpisode(k)).meta).path,
                  FileName(BatchVideo(k)), FALSE)

GroupSubtitle(k, j) ==
    LET name == << "x" >> \o Digits(k) \o << ".", DigitTok[j + 1], ".", "srt" >>
    IN  MoveOperation(<< name >>, Join(Parent(GroupVideo(k).target_path), name), name, TRUE)

\* Group k has (k + shift) % 3 subtitles.
RECURSIVE GroupsFrom(_, _, _)
GroupsFrom(k, g, shift) ==
    IF k > g THEN << >>
    ELSE << GroupVideo(k) >>
         \o [j \in 1..((k + shift) % 3) |-> GroupSubtitle(k, j)]
         \o GroupsFrom(k + 1, g, shift)

InitReply ==
    /\ media = "TV"
    /\ rootKind = "dir"
    /\ files = << >>
    /\ dirs = {}
    /\ unreadable = {}
    /\ oracle = << >>
    /\ pc = "planned"
    /\ round = 1
    /\ video_files = << >>
    /\ chunkStart = 1
    /\ tasks = << >>
    /\ joinIdx = 0
    /\ \E g \in 0..(MaxListed + ExtraGroups) : \E shift \in 0..2 :
          operations = GroupsFrom(1, g, shift)
    /\ unparseable_files \in { << >>, << << << "y", ".", "mkv" >> >> >> }
    /\ genResult = "Ok"
    /\ listing = << >>
    /\ reply = << >>
    /\ parsed = NoParse
    /\ selected = << >>
    /\ execIdx = 0
    /\ success_count = 0
    /\ errors = << >>
    /\ execResult = "none"
    /\ resultText = << >>
    /\ response = NoResponse
    /\ calls = << >>
    /\ faults = << >>
    /\ firstPlan = NoFirstPlan
    /\ restructure_plans = << >>
    /\ lastId = 0
    /\ resolveArg = << >>
    /\ resolveRes = << >>
    /\ matchArg = << >>
    /\ matchRes = << >>
    /\ http = << >>
    /\ handshake = << >>
    /\ dispatch = << >>

\* "apply i1 i2 .."
RECURSIVE IndexList(_)
IndexList(indices) ==
    IF indices = << >> THEN << >>
    ELSE << " " >> \o Digits(indices[1]) \o IndexList(Tail(indices))

ApplyList(indices) == << "apply" >> \o IndexList(indices)

\* The index replies of two and three numbers, repeated and in any order,
\* in range and out of range.
IndexReplies(ops) ==
    LET V == { 0, 1, 2, 5, FinalIndex(ops) + 1 }
    IN  { ApplyList(<< a, b >>) : a \in V, b \in V }
        \cup { ApplyList(<< a, b, c >>) : a \in V, b \in V, c \in V }

\* Replies in other letter case and with other whitespace, and replies that
\* are none of the forms.
OtherReplies ==
    { << "apply" >>, << "APPLY" >>, << " ", "APPLY", " ", "ALL", " " >>,
      << "APPLY", " ", "all" >>, << " ", "apply", " " >>,
      << "apply", " ", " ", "all" >>,
      << "CANCEL", " ", " " >>, << " ", "cancel" >>,
      << "apply", " ", "x" >>, << "x" >>,
      << "apply", " ", "1", " ", "x" >>, << "apply", " ", "x", " ", "1" >> }

\* parse_restructure_reply alone: the reply is interpreted, nothing is executed.
ParseReply ==
    /\ pc = "presented"
    /\ \E r \in Replies(operations) \cup IndexReplies(operations) \cup OtherReplies :
          /\ reply' = r
          /\ parsed' = parse_restructure_reply(r, operations)
    /\ pc' = "replied"
    /\ UNCHANGED << rootKind, files, dirs, unreadable, oracle, faults, media, round,
                    video_files, chunkStart, tasks, joinIdx, operations,
                    unparseable_files, genResult, listing, selected, execIdx,
                    success_count, errors, execResult, resultText, response, calls, firstPlan, restructure_plans, lastId, resolveArg,
                    resolveRes, matchArg, matchRes, http, handshake, dispatch >>

NextReply ==
    \/ Present
    \/ ParseReply

SpecReply == InitReply /\ [][NextReply]_vars

(***************************************************************************)
(* SpecExec: execute_moves alone, over lists of up to MaxErrorLines +       *)
(* ExtraOps operations whose calls the operating system may fail.           *)
(***************************************************************************)
\* What happens to an operation: a fault of its calls, or its source is gone.
ExecFaults == Faults \cup { "missing" }

InitExec ==
    /\ media = "TV"
    /\ rootKind = "dir"
    /\ \E n \in 0..(MaxErrorLines + ExtraOps) : \E k \in 0..n :
       \E f \in ExecFaults : \E g \in ExecFaults :
          LET what == [i \in 1..n |-> IF i = k THEN g ELSE f]
          IN  /\ selected = [i \in 1..n |-> GroupVideo(i)]
              /\ files = [p \in { BatchVideo(i) : i \in { j \in 1..n : what[j] # "missing" } }
                            |-> CHOOSE i \in 1..n : BatchVideo(i) = p]
              /\ faults = [i \in 1..n |-> IF what[i] = "missing" THEN "none" ELSE what[i]]
    /\ dirs = {}
    /\ unreadable = {}
    /\ oracle = << >>
    /\ pc = "exec"
    /\ round = 1
    /\ video_files = << >>
    /\ chunkStart = 1
    /\ tasks = << >>
    /\ joinIdx = 0
    /\ operations = selected
    /\ unparseable_files = << >>
    /\ genResult = "Ok"
    /\ listing = << >>
    /\ reply = << >>
    /\ parsed = NoParse
    /\ execIdx = 0
    /\ success_count = 0
    /\ errors = << >>
    /\ execResult = "none"
    /\ resultText = << >>
    /\ response = NoResponse
    /\ calls = << >>
    /\ firstPlan = NoFirstPlan
    /\ restructure_plans = << >>
    /\ lastId = 0
    /\ resolveArg = << >>
    /\ resolveRes = << >>
    /\ matchArg = << >>
    /\ matchRes = << >>
    /\ http = << >>
    /\ handshake = << >>
    /\ dispatch = << >>

NextExec ==
    \/ ExecStep
    \/ ExecReturn

\* The loop is sequential code: each of its calls returns, and the next
\* statement runs.
SpecExec == InitExec /\ [][NextExec]_vars /\ WF_vars(NextExec)

(***************************************************************************)
(* SpecHandler: handle_message for a message that is a reply, after a plan  *)
(* was sent to the chat and stored with the id of its message.              *)
(***************************************************************************)
\* text: Vec<String>, the words of the message; a word is a string.
Messages ==
    { << << "cancel" >> >>, << << "CANCEL" >> >>,
      << << "apply" >>, << "all" >> >>, << << "apply" >> >>,
      << << "apply" >>, << "1" >> >>,
      << << "1" >> >>,
      << << "tv" >>, << "1" >> >>, << << "movie" >>, << "cancel" >> >>,
      << << "tv" >>, << "apply" >>, << "1" >> >> }

\* text.join(" ")
RECURSIVE JoinWords(_)
JoinWords(text) ==
    IF text = << >> THEN << >>
    ELSE IF Len(text) = 1 THEN text[1]
    ELSE text[1] \o << " " >> \o JoinWords(Tail(text))

\* word.parse::<u16>().ok()
ParseU16(word) ==
    IF ParsesAsUsize(word) /\ UsizeValue(word) < 65536 THEN Some(UsizeValue(word))
    ELSE None

\* Result<String, String>, its text as lines, and the message replied to.
Response(kind, lines, to) == [kind |-> kind, text |-> lines, to |-> to]

\* The number of plans the store keeps.
MaxPlans == 100

\* One entry of restructure_plans: (plan, text, message id); the text is
\* never read.
Stored(plan, id) == [plan |-> plan, id |-> id]

\* add_restructure_plan that evicts nothing.
add_restructure_plan_NoEviction(plans, plan, message_id) ==
    Append(plans, [plan |-> plan, id |-> message_id])

\* add_restructure_plan: the store after the call.
add_restructure_plan(plans, plan, message_id) ==
    LET p == Append(plans, Stored(plan, message_id))
    IN  IF Len(p) > MaxPlans THEN Tail(p) ELSE p

\* The entry the loop over the store stops at for the message replied to:
\* the position of the first entry with that id, 0 if there is none.
FindPlan(plans, id) ==
    IF \E k \in 1..Len(plans) : plans[k].id = id
    THEN Min({ k \in 1..Len(plans) : plans[k].id = id })
    ELSE 0

\* The store after a reply to the entry k was handled, with the entry removed.
PlansAfterReply_Removed(k) ==
    [i \in 1..(Len(restructure_plans) - 1) |->
        IF i < k THEN restructure_plans[i] ELSE restructure_plans[i + 1]]

\* The store after a reply to the entry k was handled: no branch of
\* handle_message removes an entry.
PlansAfterReply(k) == restructure_plans

\* The directory holds the sources of a plan, nothing is organized yet.
InitHandler ==
    /\ media = "TV"
    /\ rootKind = "dir"
    /\ \E g \in 1..PlanGroups : operations = GroupsFrom(1, g, 1)
    /\ files = [p \in { operations[i].source_path : i \in 1..Len(operations) } |->
                  CHOOSE i \in 1..Len(operations) : operations[i].source_path = p]
    /\ dirs = {}
    /\ unreadable = {}
    /\ oracle = << >>
    /\ faults = << >>
    /\ pc = "handler"
    /\ round = 1
    /\ video_files = << >>
    /\ chunkStart = 1
    /\ tasks = << >>
    /\ joinIdx = 0
    /\ unparseable_files = << >>
    /\ genResult = "Ok"
    /\ listing = format_restructure_plan(operations, unparseable_files)
    /\ reply = << >>
    /\ parsed = NoParse
    /\ selected = << >>
    /\ execIdx = 0
    /\ success_count = 0
    /\ errors = << >>
    /\ execResult = "none"
    /\ resultText = << >>
    /\ response = NoResponse
    /\ calls = << >>
    /\ firstPlan = NoFirstPlan
    /\ restructure_plans = << >>
    /\ lastId = 0
    /\ resolveArg = << >>
    /\ resolveRes = << >>
    /\ matchArg = << >>
    /\ matchRes = << >>
    /\ http = << >>
    /\ handshake = << >>
    /\ dispatch = << >>

\* handle_message for "/restructure tv": the plan of the directory is
\* formatted and sent, and stored under the id of the message when the
\* message was sent.
Restructure ==
    /\ pc = "handler"
    /\ lastId < MaxPlans + ExtraPlans
    /\ \E sent \in BOOLEAN :
          /\ lastId' = IF sent THEN lastId + 1 ELSE lastId
          /\ restructure_plans' =
                IF sent THEN add_restructure_plan(restructure_plans, operations, lastId + 1)
                ELSE restructure_plans
    /\ reply' = << "/restructure", " ", "tv" >>
    /\ response' = Response("Ok", << ResultLine("plan", << >>, << >>) >>, 0)
    /\ UNCHANGED << rootKind, files, dirs, unreadable, oracle, faults, media, pc,
                    round, video_files, chunkStart, tasks, joinIdx, operations,
                    unparseable_files, genResult, listing, parsed, selected,
                    execIdx, success_count, errors, execResult, resultText,
                    calls, firstPlan, resolveArg, resolveRes, matchArg, matchRes, http, handshake, dispatch >>

\* The messages of the bot a reply is a reply to: the oldest and the newest
\* message with a stored plan, the first plan's message (evicted, once more
\* than MaxPlans were stored) and a message that has no plan.
ReplyTargets ==
    { 0, 1 } \cup { restructure_plans[k].id : k \in { 1, Len(restructure_plans) } \cap DOMAIN restructure_plans }

\* handle_message for a message of an allowed chat that is a reply to the
\* message `to` of the bot, which is in neither the file lists nor the
\* torrent lists.
HandleReply ==
    /\ pc = "handler"
    /\ \E text \in Messages : \E to \in ReplyTargets :
          LET prefix == text[1]
              suffix == text[Len(text)]
              num == IF prefix = << "tv" >> \/ prefix = << "movie" >>
                     THEN ParseU16(suffix) ELSE ParseU16(prefix)
              k == FindPlan(restructure_plans, to)
              plan == IF k = 0 THEN << >> ELSE restructure_plans[k].plan
              full_reply == JoinWords(text)
              p == parse_restructure_reply(full_reply, plan)
              x == execute_moves(files, dirs, p.ops, faults)
          IN  /\ reply' = full_reply
              /\ IF ~IsSome(num)
                 THEN /\ response' = Response("Err", << ResultLine("Not a number", << >>, << >>) >>, to)
                      /\ UNCHANGED << files, dirs, parsed, selected, execResult,
                                      resultText, restructure_plans >>
                 ELSE IF k = 0
                 THEN /\ response' = Response("pick_choices", << >>, to)
                      /\ UNCHANGED << files, dirs, parsed, selected, execResult,
                                      resultText, restructure_plans >>
                 ELSE IF ToLowercase(Trim(prefix)) = << "cancel" >>
                 THEN /\ response' = Response("Ok", << ResultLine("Restructure cancelled", << >>, << >>) >>, to)
                      /\ restructure_plans' = PlansAfterReply(k)
                      /\ UNCHANGED << files, dirs, parsed, selected, execResult, resultText >>
                 ELSE IF p.ok
                 THEN /\ parsed' = p
                      /\ selected' = p.ops
                      /\ files' = x.files
                      /\ dirs' = x.dirs
                      /\ execResult' = IF x.ok THEN "Ok" ELSE "Err"
                      /\ resultText' = x.text
                      /\ response' = Response(execResult', x.text, to)
                      /\ restructure_plans' = PlansAfterReply(k)
                 ELSE /\ parsed' = p
                      /\ response' = Response("Err", << ResultLine(p.err, << >>, << p.arg >>) >>, to)
                      /\ restructure_plans' = PlansAfterReply(k)
                      /\ UNCHANGED << files, dirs, selected, execResult, resultText >>
    /\ UNCHANGED << rootKind, unreadable, oracle, faults, media, pc, round,
                    video_files, chunkStart, tasks, joinIdx, operations,
                    unparseable_files, genResult, listing, execIdx, success_count,
                    errors, calls, firstPlan, lastId, resolveArg, resolveRes, matchArg, matchRes, http, handshake, dispatch >>

NextHandler ==
    \/ Restructure
    \/ HandleReply

SpecHandler == InitHandler /\ [][NextHandler]_vars

(***************************************************************************)
(* Properties.                                                              *)
(***************************************************************************)
\* The filesystem is the one the plan was built on.
Planning == pc \in { "spawn", "join", "planned", "presented" }

PlanReturned == pc = "planned" /\ genResult = "Ok"

\* The sources of the subtitle operations that follow operation v.
SubtitleSources(ops, v) ==
    [k \in 1..(SkipSubtitles(ops, v + 1) - v - 1) |-> ops[v + k].source_path]

\* C1: the operations of a plan, at every moment of its construction, are a
\* concatenation of groups: one video operation followed by the subtitle
\* operations matched to that video and nothing else; the first operation is
\* never a subtitle operation.
C1_Grouping ==
    /\ operations # << >> => ~operations[1].is_subtitle
    /\ Planning =>
         \A v \in 1..Len(operations) :
            ~operations[v].is_subtitle =>
               SubtitleSources(operations, v) =
                  find_matching_subtitles(files, unreadable, operations[v].source_path)

\* A plan of two groups, the first with a subtitle operation.
C1_Witness ==
    /\ PlanReturned
    /\ Len(operations) >= 3
    /\ operations[2].is_subtitle
    /\ \E v \in 3..Len(operations) : ~operations[v].is_subtitle

\* The numbers format_restructure_plan printed.
PrintedNumbers ==
    { listing[e].num : e \in { i \in 1..Len(listing) : listing[i].kind = "entry" } }

\* The operations rendered under the number k: that of the numbered line and
\* those of the subtitle lines that follow it.
RenderedUnder(k) ==
    LET e == CHOOSE i \in 1..Len(listing) : listing[i].kind = "entry" /\ listing[i].num = k
        next == Min({ j \in (e + 1)..(Len(listing) + 1) :
                        j = Len(listing) + 1 \/ listing[j].kind # "sub" })
    IN  [m \in 1..(next - e) |-> operations[listing[e + m - 1].op]]

\* C2: for every number k printed by format_restructure_plan, the reply
\* "apply k" selects exactly the operations rendered under k.
C2_NumberingMatches ==
    pc = "replied" =>
       \A k \in PrintedNumbers :
          reply = ApplyReply(k) => parsed.ok /\ parsed.ops = RenderedUnder(k)

\* The reply "apply 50" to a plan of more than 50 groups, whose group 50 has
\* subtitles.
C2_Witness ==
    /\ pc = "replied"
    /\ FinalIndex(operations) > MaxListed
    /\ reply = ApplyReply(MaxListed)
    /\ MaxListed \in PrintedNumbers
    /\ parsed.ok
    /\ Len(parsed.ops) > 1

\* C3 (as claimed): after every operation of the first plan was executed
\* successfully, the second plan has no operation for a file the first plan
\* moved and lists none of them as unparseable.
C3_Idempotent ==
    (PlanReturned /\ round = 2 /\ firstPlan.finished /\ firstPlan.whole /\ firstPlan.allOk) =>
       /\ \A k \in 1..Len(operations) :
             files[operations[k].source_path] \notin firstPlan.ids
       /\ \A k \in 1..Len(unparseable_files) :
             files[unparseable_files[k]] \notin firstPlan.ids

\* C4 (as claimed): resolve_collision called with a target that exists returns
\* a path that does not exist.
C4_ReturnsFreePath ==
    (pc = "resolved" /\ PathExists(files, dirs, resolveArg)) =>
       ~PathExists(files, dirs, resolveRes)

\* C5 (as claimed): the target paths of the operations of a plan are pairwise
\* distinct.
C5_DistinctTargets ==
    PlanReturned =>
       \A i, j \in 1..Len(operations) :
          i # j => operations[i].target_path # operations[j].target_path

\* The candidates of the target that are free.
FreeSuffixes == { i \in 1..MaxSuffix : ~PathExists(files, dirs, Taken(resolveArg, i)) }

\* C6: resolve_collision returns the target if it does not exist, otherwise
\* the candidate {stem}-{i}{ext} of the smallest free i in 1..100, and the
\* target unchanged if the target and all 100 candidates exist.
C6_ResolveFunction ==
    pc = "resolved" =>
       resolveRes =
          IF ~PathExists(files, dirs, resolveArg) THEN resolveArg
          ELSE IF FreeSuffixes = {} THEN resolveArg
          ELSE Taken(resolveArg, Min(FreeSuffixes))

\* The target and candidates 1..99 exist, candidate 100 is free and returned.
C6_Witness ==
    /\ pc = "resolved"
    /\ PathExists(files, dirs, resolveArg)
    /\ FreeSuffixes = { MaxSuffix }
    /\ resolveRes = Taken(resolveArg, MaxSuffix)

\* What call_guessit returns for a scanned file.
Inferred(f) == call_guessit(f, oracle[files[f]])

\* The operations and unparseable entries of the files from the k-th on, each
\* file's part computed from its own inference result alone.
RECURSIVE OwnOps(_)
OwnOps(k) ==
    IF k > Len(video_files) THEN << >>
    ELSE ProcessResult(files, dirs, unreadable, media, video_files[k],
                       Inferred(video_files[k])).ops \o OwnOps(k + 1)

RECURSIVE OwnUnparseable(_)
OwnUnparseable(k) ==
    IF k > Len(video_files) THEN << >>
    ELSE ProcessResult(files, dirs, unreadable, media, video_files[k],
                       Inferred(video_files[k])).unparseable \o OwnUnparseable(k + 1)

\* C7: a file whose inference failed is listed exactly once as unparseable and
\* is the source of no operation; every file, in the same batch and in later
\* ones, contributes what its own inference result gives, whatever the results
\* of the other files.
C7_FailureIsLocal ==
    PlanReturned =>
       /\ \A k \in 1..Len(video_files) :
             ~Inferred(video_files[k]).ok =>
                /\ Cardinality({ u \in 1..Len(unparseable_files) :
                                   unparseable_files[u] = video_files[k] }) = 1
                /\ \A o \in 1..Len(operations) :
                      operations[o].source_path # video_files[k]
       /\ operations = OwnOps(1)
       /\ unparseable_files = OwnUnparseable(1)

\* A plan over two batches: an inference of the first batch failed, and the
\* files of both batches have their operations.
C7_Witness ==
    /\ PlanReturned
    /\ Len(video_files) > batch_size
    /\ Len(unparseable_files) = 1
    /\ \E k \in 1..batch_size : unparseable_files[1] = video_files[k]
    /\ Len(operations) = Len(video_files) - 1

\* C8 (as claimed): generate_restructure_plan returns an error only when the
\* scan root does not exist or is not a directory.
C8_ErrorOnlyForBadRoot ==
    genResult = "Err" => rootKind # "dir"

\* C9 (as claimed): for every oracle output that is a JSON object with a
\* title, whatever its extension field, call_guessit succeeds and the
\* extension of the metadata is the one of the source path.
C9_ExtensionFromPath ==
    Planning =>
       \A i \in 1..Len(tasks) :
          ( /\ tasks[i].state = "finished"
            /\ oracle[files[tasks[i].file]].kind = "json"
            /\ IsSome(oracle[files[tasks[i].file]].title) ) =>
             /\ tasks[i].result.ok
             /\ tasks[i].result.meta.extension =
                   << "." >> \o Extension(FileName(tasks[i].file))

\* The chunk a task belongs to.
ChunkOf(i) == (i - 1) \div batch_size

\* C10: at every moment at most batch_size inference calls are in progress,
\* and no call of a batch was started while a call of an earlier batch was
\* not completed.
C10_OneBatchInFlight ==
    /\ Cardinality(Running) <= batch_size
    /\ \A i, j \in 1..Len(tasks) :
          ChunkOf(i) < ChunkOf(j) => tasks[i].state = "finished"

\* A call of the second batch is in progress, after batch_size calls of the
\* first batch were made and completed.
C10_Witness ==
    /\ \E i \in Running : ChunkOf(i) = 1
    /\ \A i \in 1..batch_size : tasks[i].state = "finished"

(***************************************************************************)
(* Plan order, execution, replies.                                          *)
(***************************************************************************)
\* The sources of the operations that are not subtitles, in plan order.
VideoSources(ops) ==
    LET v == SelectSeq(ops, LAMBDA o : ~o.is_subtitle)
    IN  [i \in 1..Len(v) |-> v[i].source_path]

Ascending(paths) ==
    \A i, j \in 1..Len(paths) : i < j => PathLess(paths[i], paths[j])

\* C11: whatever the order in which the inference calls of a batch complete,
\* the plan returned is the one computed file by file in the scanner's order:
\* the video operations are in the scanner's sorted order of their sources, and
\* so are the unparseable files.
C11_OrderIndependent ==
    PlanReturned =>
       /\ Ascending(VideoSources(operations))
       /\ Ascending(unparseable_files)
       /\ operations = OwnOps(1)
       /\ unparseable_files = OwnUnparseable(1)

\* The results are being assembled after the calls completed out of order:
\* the first result is in the plan, the second call is still in progress and
\* the third has completed.
C11_Witness ==
    /\ pc = "join"
    /\ joinIdx = 1
    /\ Len(operations) + Len(unparseable_files) >= 1
    /\ Len(tasks) >= 3
    /\ tasks[2].state = "running"
    /\ tasks[3].state = "finished"

\* execute_moves has returned.
Executed == execResult # "none"

\* The operations whose directory creation was attempted, in the order of the
\* attempts.
Attempted ==
    LET c == SelectSeq(calls, LAMBDA x : x[2] = "create_dir_all")
    IN  [i \in 1..Len(c) |-> c[i][1]]

\* The error pushed for operation i was pushed for a failed call of operation i.
OutcomeRecorded(i) ==
    Cardinality({ e \in 1..Len(errors) : errors[e].op = i }) <= 1

\* C12: when execute_moves returns, every operation of the list was attempted
\* exactly once and in list order, whatever failed before it, and each one is
\* either counted as a success or has its one error; and a call of
\* execute_moves always returns.
C12_EveryOperationAttempted ==
    /\ [](Executed =>
            /\ Attempted = [i \in 1..Len(selected) |-> i]
            /\ \A i \in 1..Len(selected) : OutcomeRecorded(i)
            /\ success_count + Len(errors) = Len(selected))
    /\ [](pc = "exec" => <>Executed)

\* A list was executed to its end in which a rename failed for good and, at
\* another operation, a directory creation, a copy or a delete failed, each
\* followed by a later operation.
C12_Witness ==
    /\ Executed
    /\ Len(selected) >= 3
    /\ \E i \in 1..Len(errors) :
          /\ errors[i].op < Len(selected)
          /\ errors[i].kind \in { "Failed to create directory", "Failed to copy",
                                  "Copied but failed to delete source" }
    /\ \E i \in 1..Len(errors) :
          /\ errors[i].op < Len(selected)
          /\ errors[i].kind = "Failed to move"

\* Operation i of the list executed did what it is for: its file is at the
\* target and no longer at the source.
Moved(i) ==
    /\ selected[i].source_path \notin DOMAIN files
    /\ selected[i].target_path \in DOMAIN files
    /\ files[selected[i].target_path] = i

NumMoved == Cardinality({ i \in 1..Len(selected) : Moved(i) })

ErrorLines == SelectSeq(resultText, LAMBDA l : l.kind = "error")
MoreLines == SelectSeq(resultText, LAMBDA l : l.kind = "more errors")

\* C13: execute_moves returns Ok exactly when at least one operation moved its
\* file; Ok or Err, the string has the number of files moved out of the number
\* of operations, one line for each of the first 10 failed operations, in list
\* order, each naming an operation that did not move, and the number of the
\* other failed operations when there are more than 10.
C13_ResultOfExecution ==
    Executed =>
       LET failed == Len(selected) - NumMoved
       IN  /\ (execResult = "Ok") <=> (NumMoved >= 1)
           /\ (execResult = "Err") <=> (NumMoved = 0)
           /\ resultText[1] = ResultLine("files moved", << NumMoved, Len(selected) >>, << >>)
           /\ Len(ErrorLines) = Min({ MaxErrorLines, failed })
           /\ \A l \in 1..Len(ErrorLines) :
                 /\ ~Moved(ErrorLines[l].error[1].op)
                 /\ \A k \in 1..(l - 1) :
                       ErrorLines[k].error[1].op < ErrorLines[l].error[1].op
           /\ IF failed > MaxErrorLines
              THEN MoreLines = << ResultLine("more errors", << failed - MaxErrorLines >>, << >>) >>
              ELSE MoreLines = << >>

\* More than 10 operations had lost their source file and one operation moved
\* its file: the result is Ok, with 10 lines of errors and the number of the
\* others.
C13_Witness ==
    /\ Executed
    /\ execResult = "Ok"
    /\ NumMoved < Len(selected)
    /\ Len(errors) > MaxErrorLines
    /\ \A e \in 1..Len(errors) :
          /\ errors[e].kind = "Failed to move"
          /\ faults[errors[e].op] = "none"
    /\ MoreLines # << >>

\* The faults that are the cross-device condition of rename.
CrossDevice == { "EXDEV", "EXDEV_copy", "EXDEV_partial", "EXDEV_remove" }

Called(i, name) == \E c \in 1..Len(calls) : calls[c] = << i, name >>

\* The rename of operation i was called and returned an error.
RenameFailed(i) == Called(i, "rename") /\ ~(Moved(i) /\ ~Called(i, "copy"))

ErrorsOf(i) == { e \in 1..Len(errors) : errors[e].op = i }

\* C14: the copy is made for an operation exactly when its rename failed with
\* the cross-device condition; after any other rename error the source is
\* where it was, nothing is at the target and the operation has exactly one
\* error.
C14_FallbackOnlyCrossDevice ==
    \A i \in 1..execIdx :
       /\ Called(i, "copy") <=> (RenameFailed(i) /\ faults[i] \in CrossDevice)
       /\ (RenameFailed(i) /\ faults[i] \notin CrossDevice) =>
             /\ ~Called(i, "copy")
             /\ selected[i].target_path \notin DOMAIN files
             /\ faults[i] # "none" => /\ selected[i].source_path \in DOMAIN files
                                       /\ files[selected[i].source_path] = i
             /\ Cardinality(ErrorsOf(i)) = 1

\* C15: an operation whose copy succeeded and whose source could not be
\* deleted is not among the successes counted, has one error, "Copied but
\* failed to delete source", which is neither the move nor the copy failure,
\* and its file is at the source and at the target.
C15_CopiedNotDeleted ==
    \A i \in 1..execIdx :
       faults[i] = "EXDEV_remove" =>
          /\ Called(i, "copy") /\ Called(i, "remove_file")
          /\ \A e \in ErrorsOf(i) :
                errors[e].kind = "Copied but failed to delete source"
          /\ Cardinality(ErrorsOf(i)) = 1
          /\ success_count = Cardinality({ j \in 1..execIdx : ErrorsOf(j) = {} })
          /\ selected[i].source_path \in DOMAIN files
          /\ selected[i].target_path \in DOMAIN files
          /\ files[selected[i].source_path] = i
          /\ files[selected[i].target_path] = i

\* A list was executed in which one operation was copied and not deleted,
\* between operations that moved their files.
C15_Witness ==
    /\ Executed
    /\ execResult = "Ok"
    /\ \E i \in 2..(Len(selected) - 1) :
          /\ faults[i] = "EXDEV_remove"
          /\ selected[i].source_path \in DOMAIN files
          /\ selected[i].target_path \in DOMAIN files
          /\ Moved(i - 1)
          /\ Moved(i + 1)

\* parse_restructure_reply has returned.
Replied == pc = "replied"

\* The reply is "apply" followed by numbers.
IsIndexReply ==
    reply \in IndexReplies(operations)
              \cup { ApplyReply(k) : k \in 0..(FinalIndex(operations) + 1) }

\* The numbers of an index reply.
Requested ==
    LET parts == SplitWhitespace(SubSeq(reply, 2, Len(reply)), << >>)
    IN  { UsizeValue(parts[k]) : k \in 1..Len(parts) }

InRange(i) == i >= 1 /\ i <= FinalIndex(operations)

\* C16: an index reply with an index that is 0 or greater than the number of
\* video groups fails with the index-out-of-range error, also when none of
\* its indices is in range.
C16_OutOfRangeError ==
    (Replied /\ IsIndexReply /\ \E i \in Requested : ~InRange(i)) =>
       /\ ~parsed.ok
       /\ parsed.err = "Index out of range"

\* The numbers of a set in ascending order.
AscendingSeq(S) ==
    CHOOSE q \in [1..Cardinality(S) -> S] :
       \A i, j \in 1..Cardinality(S) : i < j => q[i] < q[j]

PositionIn(ops, o) == CHOOSE p \in 1..Len(ops) : ops[p] = o

\* C17: the result of an index reply is the result of the reply that gives
\* the same set of numbers once each and in ascending order, and the
\* operations selected are in the order of the plan.
C17_OnlyTheSetMatters ==
    (Replied /\ IsIndexReply) =>
       /\ parsed = parse_restructure_reply(ApplyList(AscendingSeq(Requested)), operations)
       /\ \A a, b \in 1..Len(parsed.ops) :
             a < b => PositionIn(operations, parsed.ops[a])
                        < PositionIn(operations, parsed.ops[b])

\* "apply 5 2 2" selected the groups 2 and 5.
C17_Witness ==
    /\ Replied
    /\ reply = ApplyList(<< 5, 2, 2 >>)
    /\ parsed.ok
    /\ parsed = parse_restructure_reply(ApplyList(<< 2, 5 >>), operations)
    /\ Len(parsed.ops) >= 2

\* The positions of the operations that are not subtitles.
VideoPositions(ops) == { p \in 1..Len(ops) : ~ops[p].is_subtitle }

\* The video group k of a plan: its video operation and the subtitle
\* operations up to the next video operation.
Group(ops, k) ==
    LET V == VideoPositions(ops)
        first == CHOOSE p \in V : Cardinality({ q \in V : q <= p }) = k
        later == { q \in V : q > first }
        last == IF later = {} THEN Len(ops) ELSE Min(later) - 1
    IN  SubSeq(ops, first, last)

RECURSIVE Groups(_, _)
Groups(ops, ks) ==
    IF ks = << >> THEN << >> ELSE Group(ops, ks[1]) \o Groups(ops, Tail(ks))

\* C18: an index reply whose numbers are all in range returns the whole video
\* groups of these numbers, in plan order, and nothing else.
C18_WholeGroups ==
    (Replied /\ IsIndexReply /\ \A i \in Requested : InRange(i)) =>
       /\ parsed.ok
       /\ parsed.ops = Groups(operations, AscendingSeq(Requested))

\* "apply 5 1" selected two groups with their subtitles and left the groups
\* between them.
C18_Witness ==
    /\ Replied
    /\ reply = ApplyList(<< 5, 1 >>)
    /\ parsed.ok
    /\ Len(parsed.ops) > 2
    /\ \E k \in 1..Len(parsed.ops) : parsed.ops[k].is_subtitle
    /\ Len(parsed.ops) < Len(operations)

\* The replies that are "apply all" or "apply" but for whitespace around them
\* and letter case.
ApplyAllReplies ==
    { << "apply", " ", "all" >>, << "apply" >>, << "APPLY" >>,
      << " ", "APPLY", " ", "ALL", " " >>, << "APPLY", " ", "all" >>,
      << " ", "apply", " " >> }

\* C19: "apply all" and "apply", in any letter case and with whitespace
\* around them, select all the operations of the plan in the plan's order.
C19_ApplyAll ==
    (Replied /\ reply \in ApplyAllReplies) =>
       /\ parsed.ok
       /\ parsed.ops = operations

\* " APPLY ALL " selected a plan of several groups with subtitles.
C19_Witness ==
    /\ Replied
    /\ reply = << " ", "APPLY", " ", "ALL", " " >>
    /\ parsed.ok
    /\ parsed.ops = operations
    /\ FinalIndex(operations) >= 2
    /\ Len(operations) > FinalIndex(operations)

\* handle_message has answered a reply to the message of the plan.
Answered == response.kind # "none" /\ FindPlan(restructure_plans, response.to) # 0

\* C20: a reply to the plan that is "cancel", in any letter case, is answered
\* with the cancellation, which is not an error: nothing is selected and no
\* file is moved.
C20_CancelIsNotAnError ==
    (Answered /\ ToLowercase(Trim(reply)) = << "cancel" >>) =>
       /\ response.kind = "Ok"
       /\ response.text = << ResultLine("Restructure cancelled", << >>, << >>) >>
       /\ selected = << >>
       /\ \A i \in 1..Len(operations) :
             /\ operations[i].source_path \in DOMAIN files
             /\ operations[i].target_path \notin DOMAIN files

(***************************************************************************)
(* The store of plans.                                                      *)
(***************************************************************************)
\* The errors of parse_restructure_reply other than the cancellation.
ParseFailures ==
    { "Invalid number", "Index out of range", "No valid operations selected",
      "Invalid reply" }

\* The answer of handle_message is the error of a failed interpretation of a
\* reply: an error of parse_restructure_reply, or the error of the number
\* test in front of it.
FailedInterpretation ==
    /\ response.kind = "Err"
    /\ response.text # << >>
    /\ response.text[1].kind \in ParseFailures \cup { "Not a number" }

\* C21: a step in which the reply to the message of a stored plan fails to be
\* interpreted executes no operation and leaves the files, the directories
\* and the store as they were, the plan still stored under its message id.
C21_FailedReplyChangesNothing ==
    [][(FailedInterpretation' /\ FindPlan(restructure_plans, response'.to) # 0) =>
          /\ files' = files
          /\ dirs' = dirs
          /\ execResult' = execResult
          /\ restructure_plans' = restructure_plans]_vars

\* A reply to the newest of several stored plans was not understood: the plan
\* is stored and its files are where they were.
C21_Witness ==
    /\ FailedInterpretation
    /\ response.text[1].kind = "Invalid reply"
    /\ ~parsed.ok /\ parsed.err = "Invalid reply"
    /\ Len(restructure_plans) >= 2
    /\ FindPlan(restructure_plans, response.to) = Len(restructure_plans)
    /\ restructure_plans[Len(restructure_plans)].plan = operations
    /\ \A i \in 1..Len(operations) :
          /\ operations[i].source_path \in DOMAIN files
          /\ operations[i].target_path \notin DOMAIN files

\* The texts of the replies of the accepted forms, for a plan of at least one
\* video group.
AcceptedReplies ==
    { << "cancel" >>, << "CANCEL" >>, << "apply", " ", "all" >>, << "apply" >>,
      << "apply", " ", "1" >> }

\* C22: a reply of an accepted form to the message of a stored plan resolves
\* the plan: the answer is the summary of the execution of the operations
\* selected, or the cancellation.
C22_AcceptedReplyResolves ==
    (Answered /\ reply \in AcceptedReplies) =>
       /\ response.text # << >>
       /\ response.text[1].kind \in { "files moved", "Restructure cancelled" }

C24_StoreKeepsNewest ==
    /\ Len(restructure_plans) = Min({ lastId, MaxPlans })
    /\ \A i \in 1..Len(restructure_plans) :
          /\ restructure_plans[i].id = lastId - Len(restructure_plans) + i
          /\ restructure_plans[i].plan = operations

\* The plan after the hundredth was stored: the first plan is gone, the
\* second is the oldest.
C24_Witness ==
    /\ lastId = MaxPlans + 1
    /\ Len(restructure_plans) = MaxPlans
    /\ restructure_plans[1].id = 2
    /\ restructure_plans[MaxPlans].id = MaxPlans + 1

(***************************************************************************)
(* C25: the numbered entries of the listing.                                *)
(***************************************************************************)
EntryLines == { i \in 1..Len(listing) : listing[i].kind = "entry" }
SubLines == { i \in 1..Len(listing) : listing[i].kind = "sub" }
RemainderLines == { i \in 1..Len(listing) : listing[i].kind = "more" }

\* The positions in the plan of the operations the listing renders.
ListedOperations == { listing[i].op : i \in EntryLines \cup SubLines }

\* The position of the k-th video operation of the plan.
VideoAt(ops, k) ==
    CHOOSE p \in VideoPositions(ops) :
       Cardinality({ q \in VideoPositions(ops) : q <= p }) = k

\* C25: for a plan of g video groups the listing format_restructure_plan
\* returned (the state "presented") has exactly min(g, 50)
\* numbered entries, numbered 1, 2, .. in plan order, entry k rendering the
\* k-th video operation; a subtitle operation has no number and is listed
\* once, under the entry of its video; when g > 50 the listing stops after
\* entry 50 with one line that gives the number of operations not listed, and
\* when g <= 50 there is no such line.
C25_NumberedEntries ==
    (pc = "presented" /\ operations # << >>) =>
       LET V == VideoPositions(operations)
           g == Cardinality(V)
           n == Min({ g, MaxListed })
       IN  /\ Cardinality(EntryLines) = n
           /\ \A i \in EntryLines :
                 /\ listing[i].num = Cardinality({ e \in EntryLines : e <= i })
                 /\ listing[i].op = VideoAt(operations, listing[i].num)
           /\ \A i \in SubLines :
                 /\ listing[i].num = 0
                 /\ operations[listing[i].op].is_subtitle
                 /\ \E e \in EntryLines :
                       /\ e = Max({ x \in EntryLines : x < i })
                       /\ listing[e].op = Max({ v \in V : v < listing[i].op })
           /\ Cardinality(SubLines) = Cardinality({ listing[i].op : i \in SubLines })
           /\ ListedOperations =
                 { p \in 1..Len(operations) :
                     Cardinality({ v \in V : v <= p }) \in 1..n }
           /\ IF g > MaxListed
              THEN /\ Cardinality(RemainderLines) = 1
                   /\ \A r \in RemainderLines :
                         /\ \A i \in EntryLines \cup SubLines : i < r
                         /\ listing[r].num =
                               Len(operations) - Cardinality(ListedOperations)
              ELSE RemainderLines = {}

\* A listing cut after entry 50 whose remainder has subtitle operations.
C25_Witness ==
    /\ pc = "presented"
    /\ Cardinality(VideoPositions(operations)) = MaxListed + 2
    /\ \E i \in EntryLines : listing[i].num = MaxListed
    /\ SubLines # {}
    /\ \E r \in RemainderLines : listing[r].num > 2

(***************************************************************************)
(* C26: the scenario of one episode and its subtitle.  The video            *)
(* Show.S01E01.mkv is the file xy.mkv of the universe, its subtitle         *)
(* Show.S01E01.en.srt the file xy.en.srt, and the title Show the title T.   *)
(***************************************************************************)
ScenarioVideo == << << "x", "y", ".", "mkv" >> >>
ScenarioSubtitle == << << "x", "y", ".", "en", ".", "srt" >> >>

\* The plan of the scenario was built.
ScenarioPlanned ==
    /\ media = "TV"
    /\ rootKind = "dir"
    /\ DOMAIN files = { ScenarioVideo, ScenarioSubtitle }
    /\ oracle[files[ScenarioVideo]] = OutOk
    /\ pc = "planned"
    /\ genResult = "Ok"

\* Show/Season 01/Show - S01E01.mkv
ScenarioVideoTarget ==
    << << "T" >>, << "Season ", "0", "1" >>,
       << "T", " - S", "0", "1", "E", "0", "1", ".", "mkv" >> >>

\* Show/Season 01/Show - S01E01.en.srt
ScenarioSubtitleTarget ==
    << << "T" >>, << "Season ", "0", "1" >>,
       << "T", " - S", "0", "1", "E", "0", "1", ".", "en", ".", "srt" >> >>

\* C26 (as claimed): the plan of the scenario has exactly two operations, the
\* video to {base}/Show/Season 01/Show - S01E01.mkv and then the subtitle to
\* {base}/Show/Season 01/Show - S01E01.en.srt, and no unparseable file.
C26_ScenarioPlan ==
    ScenarioPlanned =>
       /\ Len(operations) = 2
       /\ operations[1].source_path = ScenarioVideo
       /\ ~operations[1].is_subtitle
       /\ operations[1].target_path = ScenarioVideoTarget
       /\ operations[2].source_path = ScenarioSubtitle
       /\ operations[2].is_subtitle
       /\ operations[2].target_path = ScenarioSubtitleTarget
       /\ unparseable_files = << >>

(***************************************************************************)
(* C27: the subtitles matched to a video.                                   *)
(***************************************************************************)
\* The extension of the file is one of the subtitle extensions.
HasSubtitleExtension(p) ==
    /\ HasExtension(FileName(p))
    /\ (<< "." >> \o Extension(FileName(p))) \in SUBTITLE_EXTENSIONS

\* The regular files of the parent directory of the video that have a subtitle
\* extension and a name that starts with the stem of the video.
Qualifying ==
    { p \in DOMAIN files :
        /\ Parent(p) = Parent(matchArg)
        /\ HasSubtitleExtension(p)
        /\ StartsWith(FileName(p), FileStem(FileName(matchArg))) }

\* C27 (as claimed): find_matching_subtitles returns, sorted, exactly the
\* regular files of the parent directory of the video whose extension is a
\* subtitle extension and whose name starts with the stem of the video; a file
\* without extension, the video itself and the files of subdirectories are
\* not returned.
C27_ExactlyTheQualifying ==
    pc = "matched" =>
       /\ Range(matchRes) = Qualifying
       /\ \A i, j \in 1..Len(matchRes) : i < j => PathLess(matchRes[i], matchRes[j])

(***************************************************************************)
(* C28: files whose path cannot be generated.                               *)
(***************************************************************************)
\* The inference of f succeeded and its metadata has no season or no episode.
NoSeasonOrEpisode(f) ==
    /\ Inferred(f).ok
    /\ \/ ~IsSome(Inferred(f).meta.season)
       \/ episodes(Inferred(f).meta) = << >>

TimesListed(f) ==
    Cardinality({ u \in 1..Len(unparseable_files) : unparseable_files[u] = f })

IsSource(f) == \E o \in 1..Len(operations) : operations[o].source_path = f

\* The video operation a subtitle operation is grouped with.
VideoOf(ops, s) == Max({ v \in VideoPositions(ops) : v < s })

\* C28: in a TV plan a file that was inferred and has no season or no episode
\* is listed once in unparseable_files and has no video operation and no
\* group of subtitle operations, and the files after it are planned; in a
\* Movie plan every unparseable file is one whose inference failed.
C28_NoPathNoOperation ==
    PlanReturned =>
       /\ media = "TV" =>
             \A k \in 1..Len(video_files) :
                NoSeasonOrEpisode(video_files[k]) =>
                   /\ TimesListed(video_files[k]) = 1
                   /\ ~IsSource(video_files[k])
                   /\ \A s \in 1..Len(operations) :
                         operations[s].is_subtitle =>
                            /\ VideoPositions(SubSeq(operations, 1, s)) # {}
                            /\ operations[VideoOf(operations, s)].source_path
                                  # video_files[k]
                   /\ \A j \in (k + 1)..Len(video_files) :
                         IsSource(video_files[j]) \/ TimesListed(video_files[j]) = 1
                         \/ Canonicalize(files, dirs, video_files[j]) =
                               Canonicalize(files, dirs,
                                  generate_tv_path(Inferred(video_files[j]).meta).path)
       /\ media = "Movie" =>
             /\ \A k \in 1..Len(video_files) :
                   Inferred(video_files[k]).ok =>
                      /\ generate_movie_path(Inferred(video_files[k]).meta).ok
                      /\ TimesListed(video_files[k]) = 0
             /\ \A u \in 1..Len(unparseable_files) : ~Inferred(unparseable_files[u]).ok

\* A TV plan in which a file without episode, one with a subtitle beside it,
\* is unparseable and a later file has its operation.
C28_Witness ==
    /\ PlanReturned
    /\ media = "TV"
    /\ \E k \in 1..Len(video_files) :
          /\ NoSeasonOrEpisode(video_files[k])
          /\ IsSome(Inferred(video_files[k]).meta.season)
          /\ find_matching_subtitles(files, unreadable, video_files[k]) # << >>
          /\ \E j \in (k + 1)..Len(video_files) : IsSource(video_files[j])

(***************************************************************************)
(* C29: the episode tag of a TV path.                                       *)
(***************************************************************************)
Occurrences(q, n) == Cardinality({ i \in 1..Len(q) : q[i] = n })

\* The numbers of eps in ascending order, each as often as eps has it.
EpisodesAscending(eps) ==
    CHOOSE q \in [1..Len(eps) -> Range(eps)] :
       /\ \A i, j \in 1..Len(eps) : i < j => q[i] <= q[j]
       /\ \A n \in Range(eps) : Occurrences(q, n) = Occurrences(eps, n)

\* E01-E02-E03 for << 1, 2, 3 >>
RECURSIVE EpisodeTag(_)
EpisodeTag(q) ==
    IF q = << >> THEN << >>
    ELSE << "E" >> \o (IF q[1] < 10 THEN << "0" >> ELSE << >>) \o Digits(q[1])
         \o (IF Len(q) > 1 THEN << "-" >> ELSE << >>) \o EpisodeTag(Tail(q))

\* The episode array guessit gave for the one video of SpecEpisodes.
GivenEpisodes == oracle[1].episode.vals

\* C29: for every non-empty episode array the file name generated is
\* "{title} - S{season}" followed by the episode numbers in ascending order,
\* each as E and the number padded to two digits, joined with '-', and the
\* extension; the path is that of the same numbers given in ascending order.
C29_EpisodeTagSorted ==
    (PlanReturned /\ GivenEpisodes # << >>) =>
       /\ Len(operations) = 1
       /\ FileName(operations[1].target_path) =
             << "T", " - S", "0", "1" >> \o EpisodeTag(EpisodesAscending(GivenEpisodes))
             \o << ".", "mkv" >>
       /\ operations[1].target_path =
             generate_tv_path(call_guessit(operations[1].source_path,
                OutEpisodes(EpisodesAscending(GivenEpisodes))).meta).path

\* The array [3, 1, 2] gave the tag E01-E02-E03.
C29_Witness ==
    /\ PlanReturned
    /\ GivenEpisodes = << 3, 1, 2 >>
    /\ FileName(operations[1].target_path) =
          << "T", " - S", "0", "1", "E", "0", "1", "-", "E", "0", "2", "-",
             "E", "0", "3", ".", "mkv" >>

(***************************************************************************)
(* C30: every scanned video is accounted for.                               *)
(***************************************************************************)
\* The number of video operations of the plan whose source is f.
VideoOperationsOf(f) ==
    Cardinality({ o \in 1..Len(operations) :
                    ~operations[o].is_subtitle /\ operations[o].source_path = f })

\* The path generated for f, when the inference of f succeeded.
GeneratedFor(f) ==
    IF media = "TV" THEN generate_tv_path(Inferred(f).meta)
    ELSE generate_movie_path(Inferred(f).meta)

\* f is where its generated path says: the canonical paths are equal.
AlreadyOrganized(f) ==
    /\ Inferred(f).ok
    /\ GeneratedFor(f).ok
    /\ Canonicalize(files, dirs, f) = Canonicalize(files, dirs, GeneratedFor(f).path)

\* C30: in a returned plan every file of the scan is the source of exactly
\* one video operation, or is listed exactly once in unparseable_files, or is
\* already at its generated path and is in neither, and exactly one of the
\* three; a file whose inference or path generation failed is listed; the
\* video operations and the unparseable entries are of scanned files only.
C30_EveryFileAccounted ==
    PlanReturned =>
       /\ \A k \in 1..Len(video_files) :
             LET f == video_files[k]
             IN  /\ \/ /\ VideoOperationsOf(f) = 1
                       /\ TimesListed(f) = 0
                       /\ ~AlreadyOrganized(f)
                    \/ /\ VideoOperationsOf(f) = 0
                       /\ TimesListed(f) = 1
                       /\ ~AlreadyOrganized(f)
                    \/ /\ VideoOperationsOf(f) = 0
                       /\ TimesListed(f) = 0
                       /\ AlreadyOrganized(f)
                 /\ (~Inferred(f).ok \/ ~GeneratedFor(f).ok) => TimesListed(f) = 1
       /\ \A o \in 1..Len(operations) :
             ~operations[o].is_subtitle => operations[o].source_path \in Range(video_files)
       /\ \A u \in 1..Len(unparseable_files) : unparseable_files[u] \in Range(video_files)

\* A plan of three files: one moved, one unparseable, one already organized.
C30_Witness ==
    /\ PlanReturned
    /\ \E a, b, c \in Range(video_files) :
          /\ VideoOperationsOf(a) = 1
          /\ TimesListed(b) = 1
          /\ AlreadyOrganized(c)

(***************************************************************************)
(* C31: executing a whole plan replaces no file.                            *)
(***************************************************************************)
\* One iteration of the loop of execute_moves, the list being the whole plan.
WholePlanStep ==
    /\ pc = "exec"
    /\ selected = operations
    /\ execIdx' = execIdx + 1

\* C31 (as claimed): while all operations of a plan are executed on the
\* filesystem the plan was built on, no iteration that moves a file finds a
\* file at its target path, and the number of files stays the same.
C31_NoFileReplaced ==
    [][WholePlanStep =>
         /\ success_count' = success_count + 1 =>
               selected[execIdx + 1].target_path \notin DOMAIN files
         /\ Cardinality(DOMAIN files') = Cardinality(DOMAIN files)]_vars

\* C32 (as claimed): the source paths of the operations of a plan are pairwise
\* distinct; no file, video or subtitle, is the source of two operations.
C32_DistinctSources ==
    PlanReturned =>
       \A i, j \in 1..Len(operations) :
          i # j => operations[i].source_path # operations[j].source_path

(***************************************************************************)
(* C33: an index reply with an invalid index selects nothing.               *)
(***************************************************************************)
\* The reply has the form "apply" followed by a list that is not "all".
IsApplyList ==
    LET r == ToLowercase(Trim(reply))
    IN  /\ StartsWith(r, << "apply", " " >>)
        /\ r # << "apply", " ", "all" >>

\* The words after "apply".
RequestedParts ==
    LET r == ToLowercase(Trim(reply))
    IN  SplitWhitespace(SubSeq(r, 3, Len(r)), << >>)

\* The word is an integer of 1..g, g the number of video groups of the plan.
ValidIndex(part) ==
    /\ part # << >>
    /\ \A k \in 1..Len(part) : part[k] \in { "0", "1", "2", "3", "4", "5", "6", "7", "8", "9" }
    /\ InRange(UsizeValue(part))

\* C33: parse_restructure_reply returns a selection for an index reply only
\* if every word after "apply" is an integer of 1..g; a reply with a word
\* that is 0, greater than g or no integer is an error with no operation
\* selected.
C33_InvalidIndexSelectsNothing ==
    (Replied /\ IsApplyList) =>
       /\ parsed.ok => \A k \in 1..Len(RequestedParts) : ValidIndex(RequestedParts[k])
       /\ (\E k \in 1..Len(RequestedParts) : ~ValidIndex(RequestedParts[k])) =>
             /\ ~parsed.ok
             /\ parsed.ops = << >>

\* A reply with an index of the plan and one beyond it was refused.
C33_Witness ==
    /\ Replied
    /\ FinalIndex(operations) >= 2
    /\ reply = ApplyList(<< 1, FinalIndex(operations) + 1 >>)
    /\ ~parsed.ok
    /\ parsed.ops = << >>

\* C34 (as claimed): whenever parse_restructure_reply returns a selection, the
\* selection is not empty, also for a plan that has unparseable files and no
\* operations.
C34_SelectionNonEmpty ==
    (Replied /\ parsed.ok) => parsed.ops # << >>

\* C35 (as claimed): every index k for which parse_restructure_reply accepts
\* "apply k" is the number of an entry format_restructure_plan printed for the
\* same plan.
C35_AcceptedWasShown ==
    Replied =>
       \A k \in 0..(FinalIndex(operations) + 1) :
          (reply = ApplyReply(k) /\ parsed.ok) => k \in PrintedNumbers

(***************************************************************************)
(* C36: one outcome for every operation executed.                           *)
(***************************************************************************)
\* An iteration of the loop of execute_moves that counted a success.
CountedSuccess ==
    /\ pc = "exec"
    /\ execIdx' = execIdx + 1
    /\ success_count' = success_count + 1

\* C36: after n operations were processed, success_count plus the number of
\* errors is n, each operation has at most one error, and success_count is at
\* most n; the iteration that counts an operation as a success leaves its file
\* at the target path and not at the source path, and pushes no error.
C36_OneOutcomeEach ==
    /\ [](pc \in { "exec", "done" } =>
            /\ success_count + Len(errors) = execIdx
            /\ success_count <= execIdx
            /\ \A i \in 1..Len(selected) : Cardinality(ErrorsOf(i)) <= 1
            /\ \A e \in 1..Len(errors) : errors[e].op \in 1..execIdx)
    /\ [][CountedSuccess =>
            LET op == selected[execIdx + 1]
            IN  /\ op.target_path \in DOMAIN files'
                /\ files'[op.target_path] = files[op.source_path]
                /\ op.source_path \notin DOMAIN files'
                /\ errors' = errors]_vars
    /\ [][(pc = "exec" /\ execIdx' = execIdx + 1 /\ success_count' = success_count) =>
            /\ Len(errors') = Len(errors) + 1
            /\ errors'[Len(errors')].op = execIdx + 1]_vars

\* A list was executed in which an operation moved by copy and delete was
\* counted and another one has its error.
C36_Witness ==
    /\ Executed
    /\ success_count >= 1
    /\ Len(errors) >= 1
    /\ success_count + Len(errors) = Len(selected)
    /\ \E i \in 1..Len(selected) : Called(i, "copy") /\ Moved(i)

(***************************************************************************)
(* C37: the two handshakes with Transmission.                               *)
(***************************************************************************)
\* The response to the last request f sent.
LastResponse(f) == http[Len(handshake[f].sent)]

\* C37 (as claimed): for the same responses the two functions send the same
\* requests and both or neither report success; each sends at most two
\* requests, the second only after a 409 response with a session id and with
\* that id; each reports success exactly when the last response it received
\* has a success status.
C37_SameHandshake ==
    (\A f \in HandshakeFunctions : handshake # << >> /\ handshake[f].pc = "done") =>
       /\ handshake["request_add_torrent"].sent =
             handshake["request_transmission_with_retry"].sent
       /\ handshake["request_add_torrent"].result =
             handshake["request_transmission_with_retry"].result
       /\ \A f \in HandshakeFunctions :
             /\ Len(handshake[f].sent) \in 1..2
             /\ handshake[f].sent[1] = None
             /\ Len(handshake[f].sent) = 2 =>
                   /\ http[1].kind = "http" /\ http[1].status = 409
                   /\ IsSome(http[1].session)
                   /\ handshake[f].sent[2] = http[1].session
             /\ (handshake[f].result = "Ok") <=>
                   (LastResponse(f).kind = "http" /\ is_success(LastResponse(f).status))

(***************************************************************************)
(* C38: the list position of a reply index.                                 *)
(***************************************************************************)
\* C38 (as claimed): for every 16-bit index, 0 included, dispatch_from_reply
\* returns, computes the list position as index - 1 without wrapping around,
\* and answers index 0 with an error and no torrent; a torrent returned is
\* the one at the position of the index.
C38_NoUnderflow ==
    pc = "dispatched" =>
       /\ dispatch.result.kind \in { "Ok", "Err" }
       /\ dispatch.index >= 1 => dispatch.real_index = << dispatch.index - 1 >>
       /\ dispatch.index = 0 =>
             /\ dispatch.real_index = << >>
             /\ dispatch.result = DispatchResult("Err", 0)
       /\ dispatch.result.kind = "Ok" => dispatch.result.torrent = dispatch.index

====
